---- MODULE Spec2Model ----
(***************************************************************************)
(* Real-time market-data distribution hub of the stock screener backend:   *)
(* leader election of the stream producer (stream_hub.py), the             *)
(* active-interest registry and the data bus (redis_service.py), the       *)
(* poller lanes, the socket fan-out, the chart resampler                   *)
(* (technical_service.py) and the symbol normaliser (eodhd_service.py).    *)
(*                                                                         *)
(* Time is a discrete clock `now` counted in seconds.                      *)
(***************************************************************************)
EXTENDS Integers, Sequences, FiniteSets, TLC

VARIABLES
    now,            \* wall clock, seconds
    use_redis,      \* RedisManager.use_redis of each worker process
    REDIS_URL,      \* the configured address of the shared store
    checked,        \* RedisManager._checked
    gc_pc,          \* where each caller of _get_connection is
    probes,         \* how many connectivity probes were sent
    first_use,      \* use_redis when the first call returned
    cad_pc,         \* where each poller lane is in its cycle
    due,            \* when each poller lane's sleep ends
    loop_held,      \* the lane whose blocking call holds the event loop
    is_master,      \* StreamProducer.is_master of each worker process
    wake,           \* when the election loop's asyncio.sleep(5) returns
    status,         \* "running" | "stalled" | "crashed" (environment)
    mpc,            \* position in _manage_master_status: "acquire" | "extend"
    lock,           \* the shared key stream_master_lock: holder and expiry
    fyers_thread,   \* "none" | "started" | "subscribed"
    local_active,   \* local_storage["active"]
    local_hb,       \* local_storage["heartbeats"] (0: no entry)
    redis_active,   \* the Redis set active_symbols_v2
    redis_hb,       \* expiry of the Redis keys heartbeat:<symbol> (0: no key)
    add_call,       \* the add_active_symbol call in flight (shared mode)
    get_call,       \* the get_active_symbols call in flight (shared mode)
    reg_result,     \* what the last get_active_symbols call returned
    last_touch,     \* when a symbol's heartbeat was last written (-1: never)
    lane_pc,        \* position of each poller lane of the producer process
    eodhd_rest,     \* targets of the EODHD cycle not yet fetched
    eodhd_chunk,    \* the chunk the EODHD lane's fetch in flight is for
    last_call,      \* the most recent upstream fetch or subscription
    last_pub,       \* the most recent publish_update calls of a lane
    fyers_msg,      \* the Fyers message on_message is handling
    active_sockets, \* StreamConsumer.active_sockets: key -> list of sockets
    is_listening,   \* StreamConsumer.is_listening
    conn,           \* position of each socket's connect call
    ltask,          \* state of each _listen_to_bus task
    streams,        \* the subscriber streams that are live on the bus
    queue,          \* messages waiting in each subscriber stream
    delivered,      \* messages each subscriber stream has yielded
    sub_at,         \* how many messages were published before the stream
    bcast,          \* the _broadcast_to_list call of each listener task
    last_bcast,     \* the _broadcast_to_list call that returned last
    last_msg,       \* when each socket's client last sent a message
    recv,           \* how many times each socket was sent each message
    pub_log,        \* the symbols passed to publish_update, in order
    chart_data,     \* resample_chart_data: the base series passed in
    target_interval,\* resample_chart_data: the timeframe asked for
    resampled,      \* resample_chart_data: what the call returned
    chart_after,    \* resample_chart_data: the caller's list after the call
    symbol_in,      \* format_symbol_for_eodhd: the string passed in
    formatted,      \* format_symbol_for_eodhd(symbol_in)
    formatted_again,\* format_symbol_for_eodhd(formatted)
    eodhd_of,       \* format_symbol_for_eodhd of each spelling of a coin
    class_of,       \* identify_asset_class of each spelling of a coin
    poll,           \* one cycle of a polling lane, item by item
    routing,        \* identify_asset_class: an input and the two calls' results
    legacy,         \* routers/stream.py: the ConnectionManager and its broadcast
    chart,          \* get_stock_chart: the local cache and the last response
    send_failed     \* the sockets a send_text of the consumer ever raised for

loopVars == <<cad_pc, due, loop_held>>
connVars == <<REDIS_URL, checked, gc_pc, probes, first_use>>
electionVars == <<use_redis, is_master, wake, status, mpc, lock, fyers_thread>>
regVars == <<local_active, local_hb, redis_active, redis_hb, add_call,
             get_call, reg_result, last_touch>>
laneVars == <<lane_pc, eodhd_rest, eodhd_chunk, last_call, last_pub,
             fyers_msg>>
consumerVars == <<active_sockets, is_listening, conn, ltask, streams, queue,
                  delivered, sub_at, bcast, last_bcast, last_msg, recv,
                  pub_log>>
pureVars == <<chart_data, target_interval, resampled, chart_after, symbol_in,
              formatted,
              formatted_again, eodhd_of, class_of>>
sideVars == <<poll, routing, legacy, chart, send_failed>>
coreVars == <<now, connVars, loopVars, electionVars, regVars, laneVars,
              consumerVars, pureVars>>
besidesPoll == <<coreVars, routing, legacy, chart, send_failed>>
besidesRouting == <<coreVars, poll, legacy, chart, send_failed>>
besidesLegacy == <<coreVars, poll, routing, chart, send_failed>>
besidesChart == <<coreVars, poll, routing, legacy, send_failed>>
besidesSendFailed == <<poll, routing, legacy, chart>>
vars == <<now, connVars, loopVars, electionVars, regVars, laneVars, consumerVars,
          pureVars, sideVars>>

\* what the election, the registry and the lanes leave alone
outsideElection == <<connVars, loopVars, regVars, laneVars, consumerVars, pureVars, sideVars>>
outsideRegistry == <<now, connVars, loopVars, electionVars, laneVars, consumerVars,
                     pureVars, sideVars>>
outsideLanes == <<connVars, loopVars, consumerVars, pureVars, sideVars>>

(***************************************************************************)
(* Bounds of the model.                                                    *)
(***************************************************************************)
MaxTime == 22

Procs == {"w1", "w2"}
NoHolder == "none"

(***************************************************************************)
(* Program constants.                                                      *)
(***************************************************************************)
LOCK_TTL == 15
ELECTION_SLEEP == 5

(***************************************************************************)
(* The registry's state at construction (redis_service.py:51-55).          *)
(***************************************************************************)
HEARTBEAT_TTL == 15

Symbols == {"AAPL.US", "BTC-USD.CC"}

\* the homepage banner's connection key (stream_hub.py:351)
BANNER_KEY == "MARKET_OVERVIEW"

\* what a socket can connect under, and so what add_active_symbol is given
Keys == Symbols \cup {BANNER_KEY}

\* The registry modelled is the one RedisManager of process RegProc uses:
\* its own local_storage in local-memory mode, the shared store otherwise.
RegProc == "w1"

NoAdd == [pc |-> "idle", sym |-> "-"]

NoGet == [pc |-> "idle", sym |-> "-", cands |-> {}, acc |-> {}, expired |-> {}]

NoResult == [done |-> FALSE, syms |-> {}, expired |-> {}]

RegistryEmpty ==
    /\ local_active = {}
    /\ local_hb = [s \in Keys |-> 0]
    /\ redis_active = {}
    /\ redis_hb = [s \in Keys |-> 0]
    /\ add_call = NoAdd
    /\ get_call = NoGet
    /\ reg_result = NoResult
    /\ last_touch = [s \in Keys |-> -1]

(***************************************************************************)
(* The poller lanes' state at construction.                                *)
(***************************************************************************)
Lanes == {"FMP", "EODHD", "YAHOO"}

NoCall == [lane |-> "-", syms |-> {}, absent |-> {}, unlisted |-> {},
           stale |-> {}]

NoPub == [lane |-> "-", syms |-> {}, master |-> FALSE, guarded |-> FALSE]

NoMsg == [sym |-> "-", master |-> FALSE]

NoLane == "-"

LanesIdle ==
    /\ lane_pc = [l \in Lanes |-> "sleep"]
    /\ eodhd_rest = {}
    /\ eodhd_chunk = {}
    /\ last_call = NoCall
    /\ last_pub = NoPub
    /\ fyers_msg = NoMsg
    /\ cad_pc = [l \in Lanes |-> "sleep"]
    /\ due = [l \in Lanes |-> 0]
    /\ loop_held = NoLane

(***************************************************************************)
(* The socket manager's state at construction (stream_hub.py:305-307) and  *)
(* the empty bus (redis_service.py:21-23).                                 *)
(***************************************************************************)
\* the coroutines of one process that call RedisManager._get_connection
Callers == {"c1", "c2", "c3"}

NotReturned == [done |-> FALSE, use |-> FALSE]

\* the mode was selected before anything else is looked at
ConnectionSettled ==
    /\ REDIS_URL = "remote"
    /\ checked = TRUE
    /\ gc_pc = [c \in Callers |-> "idle"]
    /\ probes = 0
    /\ first_use = NotReturned

Sockets == {"ws1", "ws2", "ws3"}

Tasks == {"t1", "t2"}

NoBroadcast == [key |-> "-", msg |-> 0, idx |-> 0, cur |-> "-", dead |-> {},
                detached |-> FALSE, banner_due |-> FALSE, start |-> {},
                sent |-> {}, gone |-> {}]

NoReturn == [done |-> FALSE, key |-> "-", start |-> {}, sent |-> {},
             dead |-> {}, gone |-> {}, after |-> {}]

ConsumerIdle ==
    /\ active_sockets = [k \in {} |-> <<>>]
    /\ is_listening = FALSE
    /\ conn = [w \in Sockets |-> "new"]
    /\ ltask = [t \in Tasks |-> "none"]
    /\ streams = {}
    /\ queue = [t \in Tasks |-> <<>>]
    /\ delivered = [t \in Tasks |-> <<>>]
    /\ sub_at = [t \in Tasks |-> 0]
    /\ bcast = [t \in Tasks |-> NoBroadcast]
    /\ last_bcast = NoReturn
    /\ last_msg = [w \in Sockets |-> 0]
    /\ recv = [w \in Sockets |-> [m \in {} |-> 0]]
    /\ pub_log = <<>>

(***************************************************************************)
(* The pure functions before they are called.                              *)
(***************************************************************************)
NotCalled == [done |-> FALSE, out |-> <<>>]

\* the spellings of a coin: the short code, the pair and the suffixed pair
Spellings == {"short", "usd", "cc"}

\* no cycle of a polling lane is being followed
NoPoll == [lane |-> "-", pc |-> "idle", targets |-> <<>>, i |-> 0,
           data |-> <<>>, k |-> 0, published |-> <<>>, received |-> <<>>,
           fetches |-> 0, outcome |-> "-", lost |-> {}, cycles |-> 0]

\* identify_asset_class has not been called
NoRouting == [x |-> <<>>, first |-> NotCalled, again |-> NotCalled]

\* routers/stream.py:11-14: no connection, no broadcast running
NoLegacy == [active_connections |-> <<>>, once |-> {}, pc |-> "idle",
             idx |-> 0, cur |-> "-", detached |-> FALSE, start |-> {},
             sent |-> {}, failed |-> {}, gone |-> {}, done |-> FALSE]

\* the base ranges a chart is cached under (routers/stocks.py:370-372)
LookupRanges == {"5M", "1D"}

\* local_storage["cache"] holds no chart and no request was served
NoChart == [cache |-> [k \in LookupRanges |-> <<>>],
            passed |-> [k \in LookupRanges |-> <<>>],
            range |-> "-", response |-> <<>>, calls |-> 0]

SideIdle ==
    /\ poll = NoPoll
    /\ routing = NoRouting
    /\ legacy = NoLegacy
    /\ chart = NoChart
    /\ send_failed = {}

AliasesIdle ==
    /\ eodhd_of = [v \in Spellings |-> NotCalled]
    /\ class_of = [v \in Spellings |-> NotCalled]

PureIdle ==
    /\ chart_data = <<>>
    /\ target_interval = "-"
    /\ resampled = NotCalled
    /\ chart_after = NotCalled
    /\ symbol_in = <<>>
    /\ formatted = NotCalled
    /\ formatted_again = NotCalled
    /\ AliasesIdle
    /\ SideIdle

(***************************************************************************)
(* The lock primitive.  stream_hub.py calls redis_client.acquire_lock and  *)
(* redis_client.extend_lock; RedisManager under src/ defines neither, so   *)
(* both follow the specification's tryAcquireOrExtend: an atomic "claim if *)
(* unheld or held by me" with a lease of ttl seconds, and "every process   *)
(* is leader" when the shared backend is unreachable.                      *)
(***************************************************************************)
LockFree(l, t) == l.holder = NoHolder \/ t >= l.expires

acquire_lock_result(p, l, t, shared) ==
    IF shared THEN LockFree(l, t) \/ l.holder = p ELSE TRUE

acquire_lock_state(p, l, t, shared) ==
    IF shared /\ (LockFree(l, t) \/ l.holder = p)
    THEN [holder |-> p, expires |-> t + LOCK_TTL]
    ELSE l

extend_lock_state(p, l, t, shared) ==
    IF shared /\ l.holder = p /\ t < l.expires
    THEN [holder |-> p, expires |-> t + LOCK_TTL]
    ELSE l

(***************************************************************************)
(* StreamProducer._manage_master_status, one loop iteration.               *)
(***************************************************************************)
\* is_master after the branch on is_leader (stream_hub.py:93-106)
MasterAfterForgetful(is_leader, was_master) ==
    IF is_leader THEN was_master ELSE FALSE

MasterAfter(is_leader, was_master) ==
    IF is_leader
    THEN (IF ~was_master THEN TRUE ELSE was_master)
    ELSE (IF was_master THEN FALSE ELSE was_master)

\* asyncio.sleep(5) at the end of the iteration
NextWakeSlow(t) == t + 2 * ELECTION_SLEEP

NextWake(t) == t + ELECTION_SLEEP

\* _start_fyers_thread: start the thread unless one is alive
start_fyers_thread(f) == IF f = "none" THEN "started" ELSE f

ManageAcquire(p) ==
    /\ status[p] = "running"
    /\ mpc[p] = "acquire"
    /\ now >= wake[p]
    /\ LET is_leader == acquire_lock_result(p, lock, now, use_redis[p])
       IN /\ lock' = acquire_lock_state(p, lock, now, use_redis[p])
          /\ is_master' = [is_master EXCEPT ![p] = MasterAfter(is_leader, @)]
          /\ IF is_leader /\ ~is_master[p]
             THEN fyers_thread' =
                      [fyers_thread EXCEPT ![p] = start_fyers_thread(@)]
             ELSE UNCHANGED fyers_thread
          /\ IF is_leader /\ is_master[p]
             THEN /\ mpc' = [mpc EXCEPT ![p] = "extend"]
                  /\ UNCHANGED wake
             ELSE /\ wake' = [wake EXCEPT ![p] = NextWake(now)]
                  /\ UNCHANGED mpc
    /\ UNCHANGED <<now, use_redis, status, outsideElection>>

ManageExtend(p) ==
    /\ status[p] = "running"
    /\ mpc[p] = "extend"
    /\ lock' = extend_lock_state(p, lock, now, use_redis[p])
    /\ mpc' = [mpc EXCEPT ![p] = "acquire"]
    /\ wake' = [wake EXCEPT ![p] = NextWake(now)]
    /\ UNCHANGED <<now, use_redis, is_master, status, fyers_thread,
                   outsideElection>>

(***************************************************************************)
(* Environment of the election: the election task of a process stalls (an  *)
(* await that does not return, a blocked event loop), resumes, or the      *)
(* process crashes.                                                        *)
(***************************************************************************)
Stall(p) ==
    /\ status[p] = "running"
    /\ status' = [status EXCEPT ![p] = "stalled"]
    /\ UNCHANGED <<now, use_redis, is_master, wake, mpc, lock, fyers_thread,
                   outsideElection>>

Resume(p) ==
    /\ status[p] = "stalled"
    /\ status' = [status EXCEPT ![p] = "running"]
    /\ UNCHANGED <<now, use_redis, is_master, wake, mpc, lock, fyers_thread,
                   outsideElection>>

Crash(p) ==
    /\ status[p] # "crashed"
    /\ status' = [status EXCEPT ![p] = "crashed"]
    /\ UNCHANGED <<now, use_redis, is_master, wake, mpc, lock, fyers_thread,
                   outsideElection>>

\* A running election loop is on schedule: time does not pass over a due
\* iteration or between acquire_lock and extend_lock.
OnSchedule(p) ==
    status[p] = "running" => (mpc[p] = "acquire" /\ now < wake[p])

TickElection ==
    /\ now < MaxTime
    /\ \A p \in Procs : OnSchedule(p)
    /\ now' = now + 1
    /\ UNCHANGED <<electionVars, outsideElection>>

InitElection ==
    /\ now = 0
    /\ use_redis \in [Procs -> BOOLEAN]
    /\ is_master = [p \in Procs |-> FALSE]
    /\ wake = [p \in Procs |-> 0]
    /\ status = [p \in Procs |-> "running"]
    /\ mpc = [p \in Procs |-> "acquire"]
    /\ lock = [holder |-> NoHolder, expires |-> 0]
    /\ fyers_thread = [p \in Procs |-> "none"]
    /\ ConnectionSettled
    /\ RegistryEmpty
    /\ LanesIdle
    /\ ConsumerIdle
    /\ PureIdle

NextElection ==
    \/ \E p \in Procs : ManageAcquire(p)
    \/ \E p \in Procs : ManageExtend(p)
    \/ \E p \in Procs : Stall(p)
    \/ \E p \in Procs : Resume(p)
    \/ \E p \in Procs : Crash(p)
    \/ TickElection

SpecElection == InitElection /\ [][NextElection]_vars

(***************************************************************************)
(* Claims about the election.                                              *)
(***************************************************************************)
AllShared == \A p \in Procs : use_redis[p]

Masters == {p \in Procs : status[p] # "crashed" /\ is_master[p]}

\* C1 (as claimed): against the shared lock key, in every reachable state
\* at most one worker process has is_master = True.
C1_AtMostOneMaster == AllShared => Cardinality(Masters) <= 1

\* The failover case of C4: p holds the lock and has stopped renewing it
\* (crashed or stalled); q runs its election loop on schedule.
FailoverCase(p, q) ==
    /\ p # q
    /\ use_redis[p] /\ use_redis[q]
    /\ lock.holder = p
    /\ status[p] # "running"
    /\ status[q] = "running" /\ OnSchedule(q)

SharedRegistry == use_redis[RegProc]

\* Redis: EXISTS heartbeat:<s>, a key written by SETEX with a ttl
RedisExists(s) == redis_hb[s] # 0 /\ now < redis_hb[s]

\* the symbols whose last heartbeat was written HEARTBEAT_TTL or more ago
Expired == {s \in Keys :
               last_touch[s] >= 0 /\ now >= last_touch[s] + HEARTBEAT_TTL}

\* local mode, redis_service.py:128: the entry is alive
LocalAliveInclusive(hb, s, t) == hb[s] # 0 /\ t <= hb[s]

LocalAlive(hb, s, t) == hb[s] # 0 /\ t < hb[s]

\* local mode, redis_service.py:126-132: the list get_active_symbols returns
LocalAliveSetUnchecked == local_active

LocalAliveSet == {s \in local_active : LocalAlive(local_hb, s, now)}

\* add_active_symbol, local mode (redis_service.py:107-110)
AddLocal(s) ==
    /\ ~SharedRegistry
    /\ local_active' = local_active \cup {s}
    /\ local_hb' = [local_hb EXCEPT ![s] = now + HEARTBEAT_TTL]
    /\ last_touch' = [last_touch EXCEPT ![s] = now]
    /\ UNCHANGED <<redis_active, redis_hb, add_call, get_call, reg_result,
                   outsideRegistry>>

\* add_active_symbol, shared mode: await r.sadd (redis_service.py:104)
AddRedisSadd(s) ==
    /\ SharedRegistry
    /\ add_call.pc = "idle"
    /\ \/ /\ redis_active' = redis_active \cup {s}
          /\ add_call' = [pc |-> "setex", sym |-> s]
       \/ \* the command raises: except: pass
          UNCHANGED <<redis_active, add_call>>
    /\ UNCHANGED <<local_active, local_hb, redis_hb, get_call, reg_result,
                   last_touch,
                   outsideRegistry>>

\* add_active_symbol, shared mode: await r.setex (redis_service.py:105)
AddRedisSetex ==
    /\ add_call.pc = "setex"
    /\ add_call' = NoAdd
    /\ \/ /\ redis_hb' = [redis_hb EXCEPT ![add_call.sym] = now + HEARTBEAT_TTL]
          /\ last_touch' = [last_touch EXCEPT ![add_call.sym] = now]
          /\ get_call' = [get_call EXCEPT !.expired = @ \ {add_call.sym}]
       \/ \* the command raises: except: pass
          UNCHANGED <<redis_hb, last_touch, get_call>>
    /\ UNCHANGED <<local_active, local_hb, redis_active, reg_result,
                   outsideRegistry>>

Returned(syms, expired) == [done |-> TRUE, syms |-> syms, expired |-> expired]

\* get_active_symbols, local mode (redis_service.py:125-132)
GetLocal ==
    /\ ~SharedRegistry
    /\ local_active' = LocalAliveSet
    /\ reg_result' = Returned(LocalAliveSet, Expired)
    /\ UNCHANGED <<local_hb, redis_active, redis_hb, add_call, get_call,
                   last_touch,
                   outsideRegistry>>

\* get_active_symbols, shared mode: await r.smembers (redis_service.py:116)
GetRedisSmembers ==
    /\ SharedRegistry
    /\ get_call.pc = "idle"
    /\ \/ /\ redis_active # {}
          /\ get_call' = [NoGet EXCEPT !.pc = "exists", !.cands = redis_active,
                                       !.expired = Expired]
          /\ UNCHANGED reg_result
       \/ /\ redis_active = {}
          /\ reg_result' = Returned({}, Expired)
          /\ UNCHANGED get_call
       \/ \* the command raises: except: return []
          /\ reg_result' = Returned({}, Expired)
          /\ UNCHANGED get_call
    /\ UNCHANGED <<local_active, local_hb, redis_active, redis_hb, add_call,
                   last_touch,
                   outsideRegistry>>

\* the loop after one candidate is dealt with
GetRedisAdvance(rest, acc) ==
    IF rest = {}
    THEN /\ get_call' = NoGet
         /\ reg_result' = Returned(acc, get_call.expired)
    ELSE /\ get_call' = [get_call EXCEPT !.pc = "exists", !.sym = "-",
                                         !.cands = rest, !.acc = acc]
         /\ UNCHANGED reg_result

\* get_active_symbols, shared mode: await r.exists (redis_service.py:119)
GetRedisExists ==
    /\ get_call.pc = "exists"
    /\ \/ \E s \in get_call.cands :
            IF RedisExists(s)
            THEN GetRedisAdvance(get_call.cands \ {s}, get_call.acc \cup {s})
            ELSE /\ get_call' = [get_call EXCEPT !.pc = "srem", !.sym = s]
                 /\ UNCHANGED reg_result
       \/ \* the command raises: except: return []
          /\ get_call' = NoGet
          /\ reg_result' = Returned({}, get_call.expired)
    /\ UNCHANGED <<local_active, local_hb, redis_active, redis_hb, add_call,
                   last_touch,
                   outsideRegistry>>

\* get_active_symbols, shared mode: await r.srem (redis_service.py:120)
GetRedisSrem ==
    /\ get_call.pc = "srem"
    /\ \/ /\ redis_active' = redis_active \ {get_call.sym}
          /\ GetRedisAdvance(get_call.cands \ {get_call.sym}, get_call.acc)
       \/ \* the command raises: except: return []
          /\ get_call' = NoGet
          /\ reg_result' = Returned({}, get_call.expired)
          /\ UNCHANGED redis_active
    /\ UNCHANGED <<local_active, local_hb, redis_hb, add_call, last_touch,
                   outsideRegistry>>

MaxRegTime == 16

TickRegistry ==
    /\ now < MaxRegTime
    /\ now' = now + 1
    /\ UNCHANGED <<connVars, loopVars, regVars, electionVars, laneVars, consumerVars,
                   pureVars, sideVars>>

\* every process probed the same backend with the same outcome
ProducersIdle ==
    /\ use_redis \in {[p \in Procs |-> b] : b \in BOOLEAN}
    /\ is_master = [p \in Procs |-> FALSE]
    /\ wake = [p \in Procs |-> 0]
    /\ status = [p \in Procs |-> "running"]
    /\ mpc = [p \in Procs |-> "acquire"]
    /\ lock = [holder |-> NoHolder, expires |-> 0]
    /\ fyers_thread = [p \in Procs |-> "none"]
    /\ ConnectionSettled

InitRegistry ==
    /\ now = 0
    /\ ProducersIdle
    /\ RegistryEmpty
    /\ LanesIdle
    /\ ConsumerIdle
    /\ PureIdle

RegistryStep ==
    \/ \E s \in Symbols : AddLocal(s)
    \/ \E s \in Symbols : AddRedisSadd(s)
    \/ AddRedisSetex
    \/ GetLocal
    \/ GetRedisSmembers
    \/ GetRedisExists
    \/ GetRedisSrem

NextRegistry ==
    \/ RegistryStep
    \/ TickRegistry

SpecRegistry == InitRegistry /\ [][NextRegistry]_vars

\* C3: a get_active_symbols call that starts HEARTBEAT_TTL (15 s) or more
\* after the last time a symbol's heartbeat was written, with no write
\* since, does not return that symbol, in local-memory mode and in
\* shared-store mode.
C3_InterestDecay ==
    reg_result.done => reg_result.syms \cap reg_result.expired = {}

\* C3 witness: a symbol was touched, its TTL elapsed, and a later call
\* returned another symbol but not this one.
C3_Witness ==
    /\ reg_result.done
    /\ reg_result.expired # {}
    /\ reg_result.syms # {}

\* shared mode: add_active_symbol(s) has returned after writing the
\* heartbeat of s, and the heartbeat has not run out
Touched(s) ==
    /\ SharedRegistry
    /\ add_call.pc = "idle"
    /\ last_touch[s] >= 0
    /\ now < last_touch[s] + HEARTBEAT_TTL

\* C16 (as claimed): the touch is one atomic step, so whatever
\* get_active_symbols call of another process it interleaves with, once
\* add_active_symbol(s) has returned and until its TTL (15 s) elapses, s is a
\* member of active_symbols with a live heartbeat, which is what every
\* get_active_symbols call needs to return s.
C16_TouchAtomic ==
    \A s \in Symbols :
        Touched(s) => (s \in redis_active /\ RedisExists(s))

(***************************************************************************)
(* Mode selection: RedisManager._get_connection (redis_service.py:66-97),  *)
(* which every Redis-facing method awaits first.  The coroutines of one    *)
(* process call it concurrently; a call is suspended at await              *)
(* client.ping() and at await client.close().                              *)
(***************************************************************************)
Urls == {"", "redis.railway.internal", "remote"}

\* redis_service.py:74
NoProbe(url) == url = "" \/ url = "redis.railway.internal"

\* the call returns: the first return of the session is remembered
Return(c, use) ==
    /\ gc_pc' = [gc_pc EXCEPT ![c] = "returned"]
    /\ first_use' = IF first_use.done THEN first_use
                    ELSE [done |-> TRUE, use |-> use]

\* redis_service.py:96
SetChecked(c) == checked' = TRUE

\* _get_connection up to its first suspension (redis_service.py:71-84)
GetConnectionCall(c) ==
    /\ gc_pc[c] = "idle"
    /\ IF checked
       THEN /\ Return(c, use_redis[RegProc])
            /\ UNCHANGED <<use_redis, checked, probes>>
       ELSE IF NoProbe(REDIS_URL)
       THEN /\ use_redis' = [use_redis EXCEPT ![RegProc] = FALSE]
            /\ checked' = TRUE
            /\ Return(c, FALSE)
            /\ UNCHANGED probes
       ELSE /\ gc_pc' = [gc_pc EXCEPT ![c] = "ping"]
            /\ probes' = probes + 1
            /\ UNCHANGED <<use_redis, checked, first_use>>
    /\ UNCHANGED <<now, REDIS_URL, is_master, wake, status, mpc, lock,
                   fyers_thread, loopVars, regVars, laneVars, consumerVars,
                   pureVars, sideVars>>

\* await client.ping() returns or raises (redis_service.py:84, 92-97)
GetConnectionPing(c) ==
    /\ gc_pc[c] = "ping"
    /\ \/ /\ gc_pc' = [gc_pc EXCEPT ![c] = "close"]
          /\ UNCHANGED <<use_redis, checked, first_use>>
       \/ /\ use_redis' = [use_redis EXCEPT ![RegProc] = FALSE]
          /\ SetChecked(c)
          /\ Return(c, FALSE)
    /\ UNCHANGED <<now, REDIS_URL, probes, is_master, wake, status, mpc, lock,
                   fyers_thread, loopVars, regVars, laneVars, consumerVars,
                   pureVars, sideVars>>

\* await client.close() returns or raises (redis_service.py:85-97)
GetConnectionClose(c) ==
    /\ gc_pc[c] = "close"
    /\ \E ok \in BOOLEAN :
          /\ use_redis' = [use_redis EXCEPT ![RegProc] = ok]
          /\ SetChecked(c)
          /\ Return(c, ok)
    /\ UNCHANGED <<now, REDIS_URL, probes, is_master, wake, status, mpc, lock,
                   fyers_thread, loopVars, regVars, laneVars, consumerVars,
                   pureVars, sideVars>>

\* RedisManager.__init__ (redis_service.py:61-64)
InitConnection ==
    /\ now = 0
    /\ REDIS_URL \in Urls
    /\ use_redis = [p \in Procs |-> FALSE]
    /\ checked = FALSE
    /\ gc_pc = [c \in Callers |-> "idle"]
    /\ probes = 0
    /\ first_use = NotReturned
    /\ is_master = [p \in Procs |-> FALSE]
    /\ wake = [p \in Procs |-> 0]
    /\ status = [p \in Procs |-> "running"]
    /\ mpc = [p \in Procs |-> "acquire"]
    /\ lock = [holder |-> NoHolder, expires |-> 0]
    /\ fyers_thread = [p \in Procs |-> "none"]
    /\ RegistryEmpty
    /\ LanesIdle
    /\ ConsumerIdle
    /\ PureIdle

NextConnection ==
    \/ \E c \in Callers : GetConnectionCall(c)
    \/ \E c \in Callers : GetConnectionPing(c)
    \/ \E c \in Callers : GetConnectionClose(c)

SpecConnection == InitConnection /\ [][NextConnection]_vars

\* C15 (as claimed): however many coroutines call _get_connection
\* concurrently, at most one connectivity probe is sent, and use_redis keeps
\* the value it had when the first call returned.
C15_ModeSelectedOnce ==
    /\ probes <= 1
    /\ first_use.done => use_redis[RegProc] = first_use.use

(***************************************************************************)
(* The poller lanes of the producer process (stream_hub.py:21-51 and       *)
(* 114-295).  Each lane checks is_master at the top of its loop, fetches   *)
(* upstream in a worker thread (a suspension) and publishes what came      *)
(* back.                                                                   *)
(***************************************************************************)
FYERS_MAP ==
    ("NSEI.INDX" :> "NSE:NIFTY50-INDEX") @@
    ("NSEBANK.INDX" :> "NSE:NIFTYBANK-INDEX") @@
    ("BSESN.INDX" :> "BSE:SENSEX-INDEX") @@
    ("INDIAVIX.INDX" :> "NSE:INDIAVIX-INDEX") @@
    ("RELIANCE.NSE" :> "NSE:RELIANCE-EQ") @@
    ("HDFCBANK.NSE" :> "NSE:HDFCBANK-EQ") @@
    ("ICICIBANK.NSE" :> "NSE:ICICIBANK-EQ") @@
    ("INFY.NSE" :> "NSE:INFY-EQ") @@
    ("TCS.NSE" :> "NSE:TCS-EQ") @@
    ("SBIN.NSE" :> "NSE:SBIN-EQ")

FMP_ASSETS ==
    <<"BTC-USD.CC", "ETH-USD.CC", "SOL-USD.CC", "XRP-USD.CC", "DOGE-USD.CC",
      "ADA-USD.CC", "MATIC-USD.CC", "DOT-USD.CC", "LTC-USD.CC", "BNB-USD.CC">>

YAHOO_MAP ==
    ("CL=F" :> "USO.US") @@ ("GC=F" :> "XAU-USD.CC") @@
    ("SI=F" :> "XAG-USD.CC") @@ ("NG=F" :> "UNG.US") @@
    ("HG=F" :> "HGUSD") @@ ("BZ=F" :> "UKOIL")

Range(f) == {f[x] : x \in DOMAIN f}

\* the process whose lanes are modelled
LaneProc == RegProc

Master == is_master[LaneProc]

\* the registry entries whose heartbeat has not expired
Live == {s \in Keys :
            last_touch[s] >= 0 /\ now < last_touch[s] + HEARTBEAT_TTL}

\* an upstream call of a fixed-list lane, for the internal symbols syms
FixedCall(l, syms) ==
    [lane |-> l, syms |-> syms, absent |-> syms \ Live, unlisted |-> {},
     stale |-> {}]

\* an upstream call of the EODHD lane, after get_active_symbols returned
\* the list res
ListedCall(syms, res) ==
    [lane |-> "EODHD", syms |-> syms, absent |-> syms \ Live,
     unlisted |-> syms \ res.syms, stale |-> syms \cap res.expired]

\* stream_hub.py:274-277: exclude the assets the other lanes handle
TargetsUnfiltered(active_list) == active_list

Targets(active_list) ==
    {s \in active_list :
        /\ s \notin Range(FMP_ASSETS)
        /\ s \notin DOMAIN FYERS_MAP
        /\ s \notin Range(YAHOO_MAP)}

EODHD_CHUNK == 50

\* stream_hub.py:280-281: the next chunk of at most 50 targets
Chunk(targets) ==
    IF Cardinality(targets) <= EODHD_CHUNK
    THEN targets
    ELSE CHOOSE c \in SUBSET targets : Cardinality(c) = EODHD_CHUNK

\* the election loop of the producer process with the lock's answer as an
\* input (stream_hub.py:91-106)
ManageOutcome(is_leader) ==
    /\ is_master' = [is_master EXCEPT ![LaneProc] = MasterAfter(is_leader, @)]
    /\ IF is_leader /\ ~Master
       THEN fyers_thread' =
                [fyers_thread EXCEPT ![LaneProc] = start_fyers_thread(@)]
       ELSE UNCHANGED fyers_thread
    /\ UNCHANGED <<now, use_redis, wake, status, mpc, lock, regVars, laneVars>>
    /\ UNCHANGED outsideLanes

\* LANE 1: _run_fyers_engine returns early or crashes (stream_hub.py:132-134,
\* 200-201)
FyersExit ==
    /\ fyers_thread[LaneProc] = "started"
    /\ fyers_thread' = [fyers_thread EXCEPT ![LaneProc] = "none"]
    /\ UNCHANGED <<now, use_redis, is_master, wake, status, mpc, lock,
                   regVars, laneVars>>
    /\ UNCHANGED outsideLanes

\* LANE 1: on_open subscribes to the VIP list (stream_hub.py:179-183)
FyersOpen ==
    /\ fyers_thread[LaneProc] = "started"
    /\ fyers_thread' = [fyers_thread EXCEPT ![LaneProc] = "subscribed"]
    /\ last_call' = FixedCall("FYERS", DOMAIN FYERS_MAP)
    /\ UNCHANGED <<now, use_redis, is_master, wake, status, mpc, lock,
                   regVars, lane_pc, eodhd_rest, eodhd_chunk, last_pub>>
    /\ UNCHANGED outsideLanes
    /\ UNCHANGED fyers_msg

\* on_message, stream_hub.py:158: the message is handled
OnMessageProceedsAlways(master) == TRUE

OnMessageProceeds(master) == master

\* LANE 1: on_message up to the publish; it runs in the Fyers thread, one
\* message at a time, while the event loop's thread runs the election
\* (stream_hub.py:156-176)
FyersMessage(k) ==
    /\ fyers_thread[LaneProc] = "subscribed"
    /\ fyers_msg = NoMsg
    /\ IF OnMessageProceeds(Master)
       THEN fyers_msg' = [sym |-> k, master |-> Master]
       ELSE UNCHANGED fyers_msg
    /\ UNCHANGED <<now, electionVars, regVars, lane_pc, eodhd_rest, eodhd_chunk, last_call,
                   last_pub>>
    /\ UNCHANGED outsideLanes

\* LANE 1: asyncio.run(redis_client.publish_update(...)) in the Fyers
\* thread (stream_hub.py:177)
FyersPublish ==
    /\ fyers_msg # NoMsg
    /\ last_pub' = [lane |-> "FYERS", syms |-> {fyers_msg.sym},
                    master |-> Master, guarded |-> fyers_msg.master]
    /\ fyers_msg' = NoMsg
    /\ UNCHANGED <<now, electionVars, regVars, lane_pc, eodhd_rest, eodhd_chunk, last_call>>
    /\ UNCHANGED outsideLanes

\* LANES 2 and 4: the top of the loop and the fetch of the fixed list
\* (stream_hub.py:207-216 and 243-249)
FixedList(l) == IF l = "FMP" THEN Range(FMP_ASSETS) ELSE Range(YAHOO_MAP)

PollFixedGate(l) ==
    /\ l \in {"FMP", "YAHOO"}
    /\ lane_pc[l] = "sleep"
    /\ IF ~Master
       THEN UNCHANGED <<lane_pc, last_call>>
       ELSE /\ lane_pc' = [lane_pc EXCEPT ![l] = "fetch"]
            /\ last_call' = FixedCall(l, FixedList(l))
    /\ UNCHANGED <<now, electionVars, regVars, eodhd_rest, eodhd_chunk, last_pub>>
    /\ UNCHANGED outsideLanes
    /\ UNCHANGED fyers_msg

\* LANES 2 and 4: the fetch returns (stream_hub.py:218-239 and 250-262)
PollFixedReturn(l) ==
    /\ l \in {"FMP", "YAHOO"}
    /\ lane_pc[l] = "fetch"
    /\ lane_pc' = [lane_pc EXCEPT ![l] = "sleep"]
    /\ \/ \* the fetch raises or returns nothing
          UNCHANGED last_pub
       \/ last_pub' = [lane |-> l, syms |-> FixedList(l), master |-> Master,
                       guarded |-> TRUE]
    /\ UNCHANGED <<now, electionVars, regVars, eodhd_rest, eodhd_chunk, last_call>>
    /\ UNCHANGED outsideLanes
    /\ UNCHANGED fyers_msg

\* LANE 3: issue the fetch of the next chunk, or sleep when nothing is left
EodhdFetchNext(targets, res) ==
    IF targets = {}
    THEN /\ lane_pc' = [lane_pc EXCEPT !["EODHD"] = "sleep"]
         /\ eodhd_rest' = {}
         /\ eodhd_chunk' = {}
         /\ UNCHANGED last_call
    ELSE /\ lane_pc' = [lane_pc EXCEPT !["EODHD"] = "fetch"]
         /\ eodhd_rest' = targets \ Chunk(targets)
         /\ eodhd_chunk' = Chunk(targets)
         /\ last_call' = ListedCall(Chunk(targets), res)

\* LANE 3, local mode: the top of the loop up to the first fetch
\* (stream_hub.py:266-282); get_active_symbols runs without suspension
EodhdGateLocal ==
    /\ ~SharedRegistry
    /\ lane_pc["EODHD"] = "sleep"
    /\ IF ~Master
       THEN UNCHANGED <<local_active, reg_result, lane_pc, eodhd_rest, eodhd_chunk, last_call>>
       ELSE /\ local_active' = LocalAliveSet
            /\ reg_result' = Returned(LocalAliveSet, Expired)
            /\ EodhdFetchNext(Targets(LocalAliveSet), reg_result')
    /\ UNCHANGED <<now, electionVars, local_hb, redis_active, redis_hb,
                   add_call, get_call, last_touch, last_pub>>
    /\ UNCHANGED outsideLanes
    /\ UNCHANGED fyers_msg

\* LANE 3, shared mode: the top of the loop up to await r.smembers
EodhdGateShared ==
    /\ SharedRegistry
    /\ lane_pc["EODHD"] = "sleep"
    /\ get_call.pc = "idle"
    /\ IF ~Master
       THEN UNCHANGED <<get_call, reg_result, lane_pc>>
       ELSE \/ /\ redis_active # {}
               /\ get_call' = [NoGet EXCEPT !.pc = "exists",
                                            !.cands = redis_active,
                                            !.expired = Expired]
               /\ reg_result' = NoResult
               /\ lane_pc' = [lane_pc EXCEPT !["EODHD"] = "registry"]
            \/ \* nothing stored, or the command raises: no targets
               /\ reg_result' = Returned({}, Expired)
               /\ UNCHANGED <<get_call, lane_pc>>
    /\ UNCHANGED <<now, electionVars, local_active, local_hb, redis_active,
                   redis_hb, add_call, last_touch, eodhd_rest, eodhd_chunk, last_call,
                   last_pub>>
    /\ UNCHANGED outsideLanes
    /\ UNCHANGED fyers_msg

\* LANE 3, shared mode: get_active_symbols returned (stream_hub.py:272-282)
EodhdTargets ==
    /\ lane_pc["EODHD"] = "registry"
    /\ get_call.pc = "idle"
    /\ reg_result.done
    /\ EodhdFetchNext(Targets(reg_result.syms), reg_result)
    /\ UNCHANGED <<now, electionVars, regVars, last_pub>>
    /\ UNCHANGED outsideLanes
    /\ UNCHANGED fyers_msg

\* LANE 3: a chunk's fetch returns (stream_hub.py:282-295)
EodhdReturn ==
    /\ lane_pc["EODHD"] = "fetch"
    /\ \/ \* the fetch raises: except: pass, the rest of the cycle is dropped
          /\ lane_pc' = [lane_pc EXCEPT !["EODHD"] = "sleep"]
          /\ eodhd_rest' = {}
          /\ eodhd_chunk' = {}
          /\ UNCHANGED <<last_call, last_pub>>
       \/ \E answered \in {{}, eodhd_chunk} :
            /\ IF answered = {}
               THEN UNCHANGED last_pub
               ELSE last_pub' = [lane |-> "EODHD", syms |-> answered,
                                 master |-> Master, guarded |-> TRUE]
            /\ EodhdFetchNext(eodhd_rest, reg_result)
    /\ UNCHANGED <<now, electionVars, regVars>>
    /\ UNCHANGED outsideLanes
    /\ UNCHANGED fyers_msg

\* the lanes' clock advances one heartbeat lifetime at a time
LaneClockStep == HEARTBEAT_TTL
MaxLaneTime == 15

TickLanes ==
    /\ now + LaneClockStep <= MaxLaneTime
    /\ now' = now + LaneClockStep
    /\ UNCHANGED <<electionVars, regVars, laneVars>>
    /\ UNCHANGED outsideLanes

\* the internal symbols the Fyers socket reports ticks for
FyersTicks == {k \in DOMAIN FYERS_MAP : k \in {"NSEI.INDX", "SBIN.NSE"}}

InitLanes ==
    /\ now = 0
    /\ ProducersIdle
    /\ RegistryEmpty
    /\ LanesIdle
    /\ ConsumerIdle
    /\ PureIdle

NextLanes ==
    \/ \E b \in BOOLEAN : ManageOutcome(b)
    \/ FyersExit
    \/ FyersOpen
    \/ \E l \in {"FMP", "YAHOO"} : PollFixedGate(l)
    \/ \E l \in {"FMP", "YAHOO"} : PollFixedReturn(l)
    \/ EodhdGateLocal
    \/ EodhdGateShared
    \/ EodhdTargets
    \/ EodhdReturn
    \/ \E s \in Symbols : AddLocal(s)
    \/ \E s \in Symbols : AddRedisSadd(s)
    \/ AddRedisSetex
    \/ GetRedisExists
    \/ GetRedisSrem
    \/ TickLanes

SpecLanes == InitLanes /\ [][NextLanes]_vars

\* the election's outcome against the lanes that need no registry: the
\* Fyers push lane and the fixed-list pollers
NextProduction ==
    \/ \E b \in BOOLEAN : ManageOutcome(b)
    \/ FyersExit
    \/ FyersOpen
    \/ \E k \in FyersTicks : FyersMessage(k)
    \/ FyersPublish
    \/ \E l \in {"FMP", "YAHOO"} : PollFixedGate(l)
    \/ \E l \in {"FMP", "YAHOO"} : PollFixedReturn(l)

SpecProduction == InitLanes /\ [][NextProduction]_vars

\* the four lanes side by side, with clients touching symbols
NextAllLanes ==
    \/ NextProduction
    \/ EodhdGateLocal
    \/ EodhdGateShared
    \/ EodhdTargets
    \/ EodhdReturn
    \/ \E s \in Symbols : AddLocal(s)
    \/ \E s \in Symbols : AddRedisSadd(s)
    \/ AddRedisSetex
    \/ GetRedisExists
    \/ GetRedisSrem

SpecAllLanes == InitLanes /\ [][NextAllLanes]_vars

(***************************************************************************)
(* The cadence of the poller lanes.  The three pollers are coroutines of   *)
(* one event loop (stream_hub.py:76-78): a lane suspended in an await      *)
(* leaves the loop to the others, a lane in a blocking call keeps it.      *)
(* asyncio.to_thread runs its argument in a worker thread.  In the Yahoo   *)
(* lane that argument is only yf.Tickers(...), which builds the Ticker     *)
(* objects without a request; the quotes are requested when fast_info's    *)
(* last_price and previous_close are read (stream_hub.py:220-222), in the  *)
(* event loop's thread.  Time is counted in half seconds here.             *)
(***************************************************************************)
\* asyncio.sleep at the end of a cycle and when not master
\* (stream_hub.py:210, 239, 244, 262, 267, 295)
LaneSleep == [l \in Lanes |-> IF l = "FMP" THEN 2
                              ELSE IF l = "EODHD" THEN 3 ELSE 6]

\* the lanes whose fetch is made by the coroutine itself, stream_hub.py:218-222
FetchesInLoop(l) == l = "YAHOO"

\* the lane's sleep is over and its coroutine is ready to run
Runnable(l) == cad_pc[l] = "sleep" /\ now >= due[l]

\* the top of a lane's loop up to its first await (stream_hub.py:207-216,
\* 242-249, 265-272)
CycleStart(l) ==
    /\ loop_held = NoLane
    /\ Runnable(l)
    /\ IF ~Master
       THEN /\ due' = [due EXCEPT ![l] = now + LaneSleep[l]]
            /\ UNCHANGED cad_pc
       ELSE /\ cad_pc' = [cad_pc EXCEPT ![l] = "thread"]
            /\ UNCHANGED due
    /\ UNCHANGED <<now, loop_held, connVars, electionVars, regVars, laneVars,
                   consumerVars, pureVars, sideVars>>

\* the awaited call returns or raises, however late; the lane publishes and
\* sleeps, or goes on to fetch in the loop (stream_hub.py:216-239, 249-262,
\* 282-295)
ThreadReturn(l) ==
    /\ loop_held = NoLane
    /\ cad_pc[l] = "thread"
    /\ \/ \* the call raises (except: pass), or its result is all the lane
          \* fetches
          /\ cad_pc' = [cad_pc EXCEPT ![l] = "sleep"]
          /\ due' = [due EXCEPT ![l] = now + LaneSleep[l]]
          /\ UNCHANGED loop_held
       \/ /\ FetchesInLoop(l)
          /\ cad_pc' = [cad_pc EXCEPT ![l] = "inline"]
          /\ loop_held' = l
          /\ UNCHANGED due
    /\ UNCHANGED <<now, connVars, electionVars, regVars, laneVars,
                   consumerVars, pureVars, sideVars>>

\* the requests made in the loop return or raise, however late; the lane
\* publishes and sleeps (stream_hub.py:218-239)
InlineReturn(l) ==
    /\ loop_held = l
    /\ cad_pc[l] = "inline"
    /\ cad_pc' = [cad_pc EXCEPT ![l] = "sleep"]
    /\ due' = [due EXCEPT ![l] = now + LaneSleep[l]]
    /\ loop_held' = NoLane
    /\ UNCHANGED <<now, connVars, electionVars, regVars, laneVars,
                   consumerVars, pureVars, sideVars>>

MaxCadenceTime == 6

\* half a second passes: a free event loop runs every coroutine that is
\* ready before it waits
TickCadence ==
    /\ now < MaxCadenceTime
    /\ loop_held # NoLane \/ \A l \in Lanes : ~Runnable(l)
    /\ now' = now + 1
    /\ UNCHANGED <<loopVars, connVars, electionVars, regVars, laneVars,
                   consumerVars, pureVars, sideVars>>

NextCadence ==
    \/ \E is_leader \in BOOLEAN : loop_held = NoLane /\ ManageOutcome(is_leader)
    \/ \E l \in Lanes : CycleStart(l)
    \/ \E l \in Lanes : ThreadReturn(l)
    \/ \E l \in Lanes : InlineReturn(l)
    \/ TickCadence

SpecCadence == InitLanes /\ [][NextCadence]_vars

LaneOwns ==
    [l \in {"FYERS", "FMP", "YAHOO"} |->
        IF l = "FYERS" THEN DOMAIN FYERS_MAP
        ELSE IF l = "FMP" THEN Range(FMP_ASSETS) ELSE Range(YAHOO_MAP)]

Owned == UNION {LaneOwns[l] : l \in DOMAIN LaneOwns}

C12_NoPublishAfterLosingLeadership ==
    last_pub.lane \in Lanes => last_pub.master

\* C18 (as claimed): while the process is leader, however slow the fetch of
\* one lane is, every other lane starts its next cycle when its own sleep
\* ends: no lane is left waiting past the end of its sleep.
C18_LanesKeepCadence ==
    Master => \A l \in Lanes : cad_pc[l] = "sleep" => now <= due[l]

ConsProc == RegProc

SharedBus == use_redis[ConsProc]

\* the key each socket's route connects under
WsKey == [w \in Sockets |->
            IF w = "ws3" THEN BANNER_KEY ELSE "BTC-USD.CC"]

\* the symbols the producer publishes ticks for
PubSymbols == {"BTC-USD.CC", "AAPL.US"}

\* how many ticks are published when the bus is examined, and when the
\* fan-out of a tick is
MaxPub == 2
MaxTicks == 1

\* the sockets that connect when the bus is examined
BusSockets == {"ws1", "ws2"}

\* stream_hub.py:345-349
is_banner_asset(symbol) ==
    \/ symbol \in Range(FMP_ASSETS)
    \/ symbol \in DOMAIN FYERS_MAP
    \/ symbol \in Range(YAHOO_MAP)

\* stream_hub.py:311-312
RegisteredAlone(f, key, w) ==
    [k \in DOMAIN f \cup {key} |-> IF k = key THEN <<w>> ELSE f[k]]

Registered(f, key, w) ==
    [k \in DOMAIN f \cup {key} |->
        IF k = key
        THEN Append(IF key \in DOMAIN f THEN f[key] ELSE <<>>, w)
        ELSE f[k]]

\* stream_hub.py:316-320, for every socket of the set gone
UnregisteredWithList(f, key, gone) ==
    IF key \notin DOMAIN f \/ gone = {}
    THEN f
    ELSE [k \in DOMAIN f \ {key} |-> f[k]]

Unregistered(f, key, gone) ==
    IF key \notin DOMAIN f
    THEN f
    ELSE LET rest == SelectSeq(f[key], LAMBDA x : x \notin gone)
         IN IF rest = <<>>
            THEN [k \in DOMAIN f \ {key} |-> f[k]]
            ELSE [f EXCEPT ![key] = rest]

\* a broadcast iterates over the list object it started with; once the key
\* is deleted that object is empty and no longer the registry's
MarkDetached(b, f) ==
    IF b.key # "-" /\ b.key \notin DOMAIN f
    THEN [b EXCEPT !.detached = TRUE]
    ELSE b

\* the sockets of a list
SocketsOf(list) == {list[i] : i \in DOMAIN list}

\* a broadcast over key during which another coroutine took the sockets
\* removed off the key's list, leaving the registry f
Disturbed(b, key, removed, f) ==
    MarkDetached(IF b.key = key
                 THEN [b EXCEPT !.gone = @ \cup (removed \cap b.start)]
                 ELSE b, f)

\* stream_hub.py:314
SpawnIfNotListening ==
    IF is_listening
    THEN UNCHANGED ltask
    ELSE /\ \E t \in Tasks : ltask[t] = "none"
         /\ ltask' = [ltask EXCEPT
                         ![CHOOSE t \in Tasks : ltask[t] = "none"] = "created"]

\* connect from the return of await websocket.accept(): register the
\* socket; in local mode add_active_symbol does not suspend and connect runs
\* to its end (stream_hub.py:310-314)
ConnectAccepted(w) ==
    /\ conn[w] = "new"
    /\ \/ \* accept() raises: connect ends before registering
          /\ conn' = [conn EXCEPT ![w] = "closed"]
          /\ UNCHANGED <<active_sockets, local_active, local_hb, last_touch,
                         ltask>>
       \/ /\ active_sockets' = Registered(active_sockets, WsKey[w], w)
          /\ IF SharedBus
             THEN /\ conn' = [conn EXCEPT ![w] = "sadd"]
                  /\ UNCHANGED <<local_active, local_hb, last_touch, ltask>>
             ELSE /\ conn' = [conn EXCEPT ![w] = "connected"]
                  /\ local_active' = local_active \cup {WsKey[w]}
                  /\ local_hb' = [local_hb EXCEPT
                                     ![WsKey[w]] = now + HEARTBEAT_TTL]
                  /\ last_touch' = [last_touch EXCEPT ![WsKey[w]] = now]
                  /\ SpawnIfNotListening
    /\ UNCHANGED <<connVars, loopVars, pureVars, sideVars, now, electionVars, redis_active, redis_hb, add_call,
                   get_call, reg_result, laneVars, is_listening, streams,
                   queue, delivered, sub_at, bcast, recv, pub_log>>
    /\ last_msg' = [last_msg EXCEPT ![w] = now]
    /\ UNCHANGED last_bcast

\* shared mode: await r.sadd returned (redis_service.py:104)
ConnectSadd(w) ==
    /\ conn[w] = "sadd"
    /\ redis_active' = redis_active \cup {WsKey[w]}
    /\ conn' = [conn EXCEPT ![w] = "setex"]
    /\ UNCHANGED <<connVars, loopVars, pureVars, sideVars, now, electionVars, local_active, local_hb, redis_hb,
                   add_call, get_call, reg_result, last_touch, laneVars,
                   active_sockets, is_listening, ltask, streams, queue,
                   delivered, sub_at, bcast, recv, pub_log>>
    /\ UNCHANGED <<last_bcast, last_msg>>

\* shared mode: await r.setex returned, connect runs to its end
\* (redis_service.py:105, stream_hub.py:314)
ConnectSetex(w) ==
    /\ conn[w] = "setex"
    /\ conn' = [conn EXCEPT ![w] = "connected"]
    /\ redis_hb' = [redis_hb EXCEPT ![WsKey[w]] = now + HEARTBEAT_TTL]
    /\ last_touch' = [last_touch EXCEPT ![WsKey[w]] = now]
    /\ SpawnIfNotListening
    /\ UNCHANGED <<connVars, loopVars, pureVars, sideVars, now, electionVars, local_active, local_hb, redis_active,
                   add_call, get_call, reg_result, laneVars, active_sockets,
                   is_listening, streams, queue, delivered, sub_at, bcast,
                   recv, pub_log>>
    /\ UNCHANGED <<last_bcast, last_msg>>

\* the route's handler calls disconnect when the socket closes
\* (stream_hub.py:316-320)
Disconnect(w) ==
    /\ conn[w] = "connected"
    /\ conn' = [conn EXCEPT ![w] = "closed"]
    /\ active_sockets' = Unregistered(active_sockets, WsKey[w], {w})
    /\ bcast' = [t \in Tasks |->
                    Disturbed(bcast[t], WsKey[w], {w}, active_sockets')]
    /\ UNCHANGED <<connVars, loopVars, pureVars, sideVars, now, electionVars, regVars, laneVars, is_listening, ltask,
                   streams, queue, delivered, sub_at, recv, pub_log>>
    /\ UNCHANGED <<last_bcast, last_msg>>

\* MemoryPubSub.publish: q.put_nowait(message) (redis_service.py:43-45)
put_nowait_first(q, m) == <<m>> \o q

put_nowait(q, m) == Append(q, m)

\* publish_update(symbol, data): the message goes to every live subscriber
\* stream (redis_service.py:135-143, 40-47)
Publish(symbol, max) ==
    /\ Len(pub_log) < max
    /\ pub_log' = Append(pub_log, symbol)
    /\ queue' = [t \in Tasks |->
                    IF t \in streams
                    THEN put_nowait(queue[t], Len(pub_log) + 1)
                    ELSE queue[t]]
    /\ UNCHANGED <<connVars, loopVars, pureVars, sideVars, now, electionVars, regVars, laneVars, active_sockets,
                   is_listening, conn, ltask, streams, delivered, sub_at,
                   bcast, recv>>
    /\ UNCHANGED <<last_bcast, last_msg>>

\* the stream of task t goes live: listen() created its queue and waits
\* (redis_service.py:31-35), or the Redis subscription is confirmed
Subscribed(t) ==
    /\ streams' = streams \cup {t}
    /\ queue' = [queue EXCEPT ![t] = <<>>]
    /\ delivered' = [delivered EXCEPT ![t] = <<>>]
    /\ sub_at' = [sub_at EXCEPT ![t] = Len(pub_log)]

\* the task's first step (stream_hub.py:323-333); memory_bus.subscribe
\* returns without suspending, the Redis subscribe is awaited
ListenerStart(t) ==
    /\ ltask[t] = "created"
    /\ is_listening' = TRUE
    /\ IF SharedBus
       THEN /\ ltask' = [ltask EXCEPT ![t] = "subscribing"]
            /\ UNCHANGED <<streams, queue, delivered, sub_at>>
       ELSE /\ ltask' = [ltask EXCEPT ![t] = "listening"]
            /\ Subscribed(t)
    /\ UNCHANGED <<connVars, loopVars, pureVars, sideVars, now, electionVars, regVars, laneVars, active_sockets, conn,
                   bcast, recv, pub_log>>
    /\ UNCHANGED <<last_bcast, last_msg>>

\* shared mode: await subscriber.subscribe returned (stream_hub.py:328)
ListenerSubscribed(t) ==
    /\ ltask[t] = "subscribing"
    /\ \/ /\ ltask' = [ltask EXCEPT ![t] = "listening"]
          /\ Subscribed(t)
       \/ \* subscribe raises outside the try block: the task ends
          /\ ltask' = [ltask EXCEPT ![t] = "none"]
          /\ UNCHANGED <<streams, queue, delivered, sub_at>>
    /\ UNCHANGED <<connVars, loopVars, pureVars, sideVars, now, electionVars, regVars, laneVars, active_sockets,
                   is_listening, conn, bcast, recv, pub_log>>
    /\ UNCHANGED <<last_bcast, last_msg>>

\* _broadcast_to_list up to its first await ws.send_text
\* (stream_hub.py:361-366); the key is registered, so its list is not empty
Broadcasting(key, m, banner_due) ==
    [key |-> key, msg |-> m, idx |-> 1, cur |-> active_sockets[key][1],
     dead |-> {}, detached |-> FALSE, banner_due |-> banner_due,
     start |-> SocketsOf(active_sockets[key]), sent |-> {}, gone |-> {}]

\* the stream yields the next message and the loop body runs up to its
\* first await (stream_hub.py:333-352)
ListenerNext(t) ==
    /\ ltask[t] = "listening"
    /\ queue[t] # <<>>
    /\ queue' = [queue EXCEPT ![t] = Tail(@)]
    /\ delivered' = [delivered EXCEPT ![t] = Append(@, Head(queue[t]))]
    /\ LET m == Head(queue[t])
           symbol == pub_log[m]
       IN IF symbol \in DOMAIN active_sockets
          THEN /\ bcast' = [bcast EXCEPT ![t] =
                               Broadcasting(symbol, m, is_banner_asset(symbol))]
               /\ ltask' = [ltask EXCEPT ![t] = "broadcast"]
          ELSE IF is_banner_asset(symbol) /\ BANNER_KEY \in DOMAIN active_sockets
          THEN /\ bcast' = [bcast EXCEPT ![t] =
                               Broadcasting(BANNER_KEY, m, FALSE)]
               /\ ltask' = [ltask EXCEPT ![t] = "broadcast"]
          ELSE UNCHANGED <<bcast, ltask>>
    /\ UNCHANGED <<connVars, loopVars, pureVars, sideVars, now, electionVars, regVars, laneVars, active_sockets,
                   is_listening, conn, streams, sub_at, recv, pub_log>>
    /\ UNCHANGED <<last_bcast, last_msg>>

\* how often socket w was sent message m, and the record after one more
Count(r, m) == IF m \in DOMAIN r THEN r[m] ELSE 0

Sent(r, m) == [k \in DOMAIN r \cup {m} |-> IF k = m THEN Count(r, m) + 1 ELSE r[k]]

\* await ws.send_text returned or raised; the loop goes on to the next
\* socket of the list, or ends, drops the dead sockets and the body moves
\* on to the banner (stream_hub.py:365-368, 345-352)
SendReturns(t, ok) ==
    /\ ltask[t] = "broadcast"
    /\ LET b == bcast[t]
           w == b.cur
       IN   /\ ok => conn[w] # "closed"
            /\ recv' = IF ok THEN [recv EXCEPT ![w] = Sent(@, b.msg)]
                             ELSE recv
            /\ LET dead == IF ok THEN b.dead ELSE b.dead \cup {w}
                   sent == IF ok THEN b.sent \cup {w} ELSE b.sent
               IN IF ~b.detached /\ b.idx < Len(active_sockets[b.key])
                  THEN /\ bcast' = [bcast EXCEPT ![t] =
                                [b EXCEPT !.idx = b.idx + 1,
                                          !.cur = active_sockets[b.key][b.idx + 1],
                                          !.dead = dead, !.sent = sent]]
                       /\ UNCHANGED <<active_sockets, ltask, last_bcast>>
                  ELSE LET f == Unregistered(active_sockets, b.key, dead)
                           again == b.banner_due /\ BANNER_KEY \in DOMAIN f
                       IN /\ active_sockets' = f
                          /\ last_bcast' =
                                [done |-> TRUE, key |-> b.key,
                                 start |-> b.start, sent |-> sent,
                                 dead |-> dead, gone |-> b.gone,
                                 after |-> IF b.key \in DOMAIN f
                                           THEN SocketsOf(f[b.key]) ELSE {}]
                          /\ bcast' = [u \in Tasks |->
                                IF u # t
                                THEN Disturbed(bcast[u], b.key, dead, f)
                                ELSE IF again
                                THEN [key |-> BANNER_KEY, msg |-> b.msg,
                                      idx |-> 1, cur |-> f[BANNER_KEY][1],
                                      dead |-> {}, detached |-> FALSE,
                                      banner_due |-> FALSE,
                                      start |-> SocketsOf(f[BANNER_KEY]),
                                      sent |-> {}, gone |-> {}]
                                ELSE NoBroadcast]
                          /\ ltask' = [ltask EXCEPT ![t] =
                                IF again THEN "broadcast" ELSE "listening"]
    /\ UNCHANGED <<connVars, loopVars, pureVars, now, electionVars, regVars, laneVars, is_listening, conn,
                   streams, queue, delivered, sub_at, pub_log, last_msg>>

BroadcastSend(t) ==
    /\ \E ok \in BOOLEAN : SendReturns(t, ok)
    /\ UNCHANGED sideVars

\* the same step, with the sockets whose send ever raised kept on record
BroadcastSendOnRecord(t) ==
    /\ \E ok \in BOOLEAN :
          /\ SendReturns(t, ok)
          /\ send_failed' = IF ok THEN send_failed
                                  ELSE send_failed \cup {bcast[t].cur}
    /\ UNCHANGED besidesSendFailed

\* shared mode: subscriber.listen() raises (stream_hub.py:355-358)
ListenerFail(t) ==
    /\ SharedBus
    /\ ltask[t] = "listening"
    /\ is_listening' = FALSE
    /\ ltask' = [ltask EXCEPT ![t] = "restart_sleep"]
    /\ streams' = streams \ {t}
    /\ queue' = [queue EXCEPT ![t] = <<>>]
    /\ UNCHANGED <<connVars, loopVars, pureVars, sideVars, now, electionVars, regVars, laneVars, active_sockets, conn,
                   delivered, sub_at, bcast, recv, pub_log>>
    /\ UNCHANGED <<last_bcast, last_msg>>

\* asyncio.sleep(5) returned: a new task is created and this one ends
\* (stream_hub.py:358-359)
ListenerRestart(t) ==
    /\ ltask[t] = "restart_sleep"
    /\ ltask' = [ltask EXCEPT ![t] = "created"]
    /\ UNCHANGED <<connVars, loopVars, pureVars, sideVars, now, electionVars, regVars, laneVars, active_sockets,
                   is_listening, conn, streams, queue, delivered, sub_at,
                   bcast, recv, pub_log>>
    /\ UNCHANGED <<last_bcast, last_msg>>

\* the subscriber stream ends without an exception: in local mode
\* MemoryPubSub.listen swallows the CancelledError raised into q.get() and
\* returns (redis_service.py:34-38), in shared mode the pub/sub's listen()
\* runs out; the async for ends and _listen_to_bus returns past its except
\* clause (stream_hub.py:333, 355-359)
ListenerEnds(t) ==
    /\ ltask[t] = "listening"
    /\ ltask' = [ltask EXCEPT ![t] = "none"]
    /\ streams' = streams \ {t}
    /\ queue' = [queue EXCEPT ![t] = <<>>]
    /\ UNCHANGED <<connVars, loopVars, pureVars, sideVars, now, electionVars,
                   regVars, laneVars, active_sockets, is_listening, conn,
                   delivered, sub_at, bcast, recv, pub_log>>
    /\ UNCHANGED <<last_bcast, last_msg>>

InitConsumer ==
    /\ now = 0
    /\ ProducersIdle
    /\ RegistryEmpty
    /\ LanesIdle
    /\ ConsumerIdle
    /\ PureIdle

ListenerStep ==
    \/ \E t \in Tasks : ListenerStart(t)
    \/ \E t \in Tasks : ListenerSubscribed(t)
    \/ \E t \in Tasks : ListenerNext(t)
    \/ \E t \in Tasks : BroadcastSend(t)
    \/ \E t \in Tasks : ListenerFail(t)
    \/ \E t \in Tasks : ListenerRestart(t)

NextConsumer ==
    \/ \E w \in Sockets : ConnectAccepted(w)
    \/ \E w \in Sockets : ConnectSadd(w)
    \/ \E w \in Sockets : ConnectSetex(w)
    \/ \E w \in Sockets : Disconnect(w)
    \/ \E symbol \in PubSymbols : Publish(symbol, MaxTicks)
    \/ ListenerStep

SpecConsumer == InitConsumer /\ [][NextConsumer]_vars

NextBus ==
    \/ \E w \in BusSockets : ConnectAccepted(w)
    \/ \E w \in BusSockets : ConnectSadd(w)
    \/ \E w \in BusSockets : ConnectSetex(w)
    \/ \E symbol \in PubSymbols : Publish(symbol, MaxPub)
    \/ ListenerStep

SpecBus == InitConsumer /\ [][NextBus]_vars

\* the fan-out of a tick to the sockets of one key
NextBroadcast ==
    \/ \E w \in BusSockets : ConnectAccepted(w)
    \/ \E w \in BusSockets : ConnectSadd(w)
    \/ \E w \in BusSockets : ConnectSetex(w)
    \/ \E w \in BusSockets : Disconnect(w)
    \/ \E symbol \in PubSymbols : Publish(symbol, MaxTicks)
    \/ ListenerStep

SpecBroadcast == InitConsumer /\ [][NextBroadcast]_vars

\* the registry of sockets under connects, disconnects and broadcasts of
\* the ticks of a symbol that has sockets of its own and is on the banner
NextShape ==
    \/ \E w \in Sockets : ConnectAccepted(w)
    \/ \E w \in Sockets : ConnectSadd(w)
    \/ \E w \in Sockets : ConnectSetex(w)
    \/ \E w \in Sockets : Disconnect(w)
    \/ Publish("BTC-USD.CC", MaxTicks)
    \/ \E t \in Tasks : ListenerStart(t)
    \/ \E t \in Tasks : ListenerSubscribed(t)
    \/ \E t \in Tasks : ListenerNext(t)
    \/ \E t \in Tasks : BroadcastSendOnRecord(t)

SpecShape == InitConsumer /\ [][NextShape]_vars

\* the consumer with subscriber streams that can end
NextListener ==
    \/ NextConsumer
    \/ \E t \in Tasks : ListenerEnds(t)

SpecListener == InitConsumer /\ [][NextListener]_vars

(***************************************************************************)
(* The life of one client connection: the route's handler registers the    *)
(* socket with connect and then waits for the client's messages            *)
(* (routers/stream.py:91-99), while the pollers read the registry.         *)
(***************************************************************************)
\* the client sends a message every ClientInterval seconds or sooner
ClientInterval == 8
MaxKeepTime == 16

\* await websocket.receive_text() returns and the handler loops
\* (routers/stream.py:95-97)
ReceiveText(w) ==
    /\ conn[w] = "connected"
    /\ last_msg[w] < now
    /\ last_msg' = [last_msg EXCEPT ![w] = now]
    /\ UNCHANGED <<now, connVars, loopVars, electionVars, regVars, laneVars, pureVars, sideVars,
                   active_sockets, is_listening, conn, ltask, streams, queue,
                   delivered, sub_at, bcast, last_bcast, recv, pub_log>>

\* the clients of the open connections keep sending
ClientsKeepSending(t) ==
    \A w \in Sockets :
        conn[w] \notin {"new", "closed"} => t - last_msg[w] < HEARTBEAT_TTL

TickKeepAlive ==
    /\ now + ClientInterval <= MaxKeepTime
    /\ ClientsKeepSending(now + ClientInterval)
    /\ now' = now + ClientInterval
    /\ UNCHANGED <<connVars, loopVars, electionVars, regVars, laneVars, consumerVars,
                   pureVars, sideVars>>

NextKeepAlive ==
    \/ \E w \in Sockets : ConnectAccepted(w)
    \/ \E w \in Sockets : ConnectSadd(w)
    \/ \E w \in Sockets : ConnectSetex(w)
    \/ \E w \in Sockets : ReceiveText(w)
    \/ \E w \in Sockets : Disconnect(w)
    \/ GetLocal
    \/ GetRedisSmembers
    \/ GetRedisExists
    \/ GetRedisSrem
    \/ TickKeepAlive

SpecKeepAlive == InitConsumer /\ [][NextKeepAlive]_vars

\* C2 (as claimed): a socket is sent a published tick at most once, and a
\* socket registered under a key other than the tick's symbol is sent
\* nothing from that publish.
C2_FanOutExactlyOnce ==
    \A m \in 1..Len(pub_log) : \A w \in Sockets :
        /\ Count(recv[w], m) <= 1
        /\ WsKey[w] # pub_log[m] => Count(recv[w], m) = 0

\* the sockets registered under the homepage banner's key
BannerSockets == {w \in Sockets : WsKey[w] = BANNER_KEY}

\* C29 (as claimed): a connection under MARKET_OVERVIEW is sent a tick of a
\* banner asset once and no more, and is sent nothing for a tick of any
\* other symbol.
C29_BannerForwardedOnce ==
    \A m \in 1..Len(pub_log) : \A w \in BannerSockets :
        Count(recv[w], m) <= (IF is_banner_asset(pub_log[m]) THEN 1 ELSE 0)

\* a banner socket was sent a banner asset's tick once, and a tick of
\* another symbol left it alone
C29_ForwardedOnce ==
    \E w \in BannerSockets : \E m \in 1..Len(pub_log) :
        /\ is_banner_asset(pub_log[m])
        /\ Count(recv[w], m) = 1
        /\ \A t \in Tasks : ltask[t] \in {"none", "listening"}

\* the part of C2 about duplicates alone
AtMostOnce ==
    \A m \in 1..Len(pub_log) : \A w \in Sockets : Count(recv[w], m) <= 1

\* C9: on the local in-memory bus, what a live subscriber stream has
\* yielded followed by what still waits in it is exactly the messages
\* published since the stream went live, in publish order: none lost, none
\* reordered.
C9_BusDeliveryInOrder ==
    ~SharedBus =>
        \A t \in streams :
            delivered[t] \o queue[t] =
                [i \in 1..(Len(pub_log) - sub_at[t]) |-> sub_at[t] + i]

\* C9 witness: a local stream has yielded two messages for the same symbol.
C9_Witness ==
    /\ ~SharedBus
    /\ \E t \in streams :
          /\ Len(delivered[t]) >= 2
          /\ pub_log[delivered[t][1]] = pub_log[delivered[t][2]]

ListeningTasks == {t \in Tasks : ltask[t] \in {"subscribing", "listening",
                                               "broadcast"}}

\* C27 (as claimed): whenever is_listening is True a _listen_to_bus task is
\* running (subscribing, waiting on the stream or broadcasting), so that a
\* listener whose loop ended has put the flag back to False.
C27_ListeningMeansRunning == is_listening => ListeningTasks # {}

\* a listener that failed with an exception is started again
C27_RestartAfterException ==
    /\ \E t \in Tasks : ltask[t] = "restart_sleep"
    /\ ~is_listening

\* the sockets on the list of their key
OnItsList ==
    {w \in Sockets :
        /\ WsKey[w] \in DOMAIN active_sockets
        /\ w \in SocketsOf(active_sockets[WsKey[w]])}

\* the sockets a broadcast in flight has found dead and not yet removed
AwaitingRemoval == UNION {bcast[t].dead : t \in Tasks}

\* C30: every key of active_sockets maps to a non-empty list without
\* duplicates, and a socket that was registered is on its key's list
\* exactly when it has not been disconnected and no send to it has
\* failed; a socket whose send failed is taken off when the broadcast that
\* found it dead has gone through its list.
C30_RegistryShape ==
    /\ \A k \in DOMAIN active_sockets :
          /\ active_sockets[k] # <<>>
          /\ Cardinality(SocketsOf(active_sockets[k])) = Len(active_sockets[k])
    /\ OnItsList \subseteq {w \in Sockets : conn[w] \notin {"new", "closed"}}
    /\ \A w \in Sockets \ AwaitingRemoval :
          conn[w] \in {"sadd", "setex", "connected"} =>
              (w \in OnItsList <=> w \notin send_failed)

\* of two sockets under one key one failed a send and was removed, the
\* other is still on the list, and a third socket has been disconnected
C30_Witness ==
    /\ send_failed = {"ws1"}
    /\ AwaitingRemoval = {}
    /\ conn["ws1"] = "connected"
    /\ conn["ws3"] = "closed"
    /\ active_sockets = [k \in {"BTC-USD.CC"} |-> <<"ws2">>]

\* C10 (as claimed): at most one _listen_to_bus task is running.
C10_AtMostOneListener == Cardinality(ListeningTasks) <= 1

\* the sockets a returned broadcast owed the tick to: those on the key's
\* list when it started, less the ones whose send failed and the ones
\* another coroutine took off the list meanwhile
Owed(r) == r.start \ (r.dead \cup r.gone)

C14_DisconnectDuringBroadcast ==
    (last_bcast.done /\ last_bcast.gone # {}) =>
        Owed(last_bcast) \subseteq last_bcast.sent

\* the heartbeat add_active_symbol wrote for s has not run out; without it
\* get_active_symbols does not return s (redis_service.py:119, 128)
HeartbeatAlive(s) ==
    IF SharedRegistry THEN RedisExists(s) ELSE LocalAlive(local_hb, s, now)

\* C13 (as claimed): while a connection for s is open and its client keeps
\* sending messages less than HEARTBEAT_TTL (15 s) apart, every message
\* touches s again, so the heartbeat of s never runs out and s stays in
\* get_active_symbols().
C13_KeepAliveRefresh ==
    \A w \in Sockets :
        (conn[w] = "connected" /\ ClientsKeepSending(now)) =>
            HeartbeatAlive(WsKey[w])

(***************************************************************************)
(* The chart resampler: resample_chart_data (technical_service.py:9-72).   *)
(* A candle is a record time, open, high, low, close, volume; pandas'      *)
(* resample bins the rows by floor(time / bucket) * bucket from the first  *)
(* row's bin to the last row's, aggregates each bin and dropna removes     *)
(* the bins no row fell into.                                              *)
(***************************************************************************)
MaxCandles == 3

ChartTimes == {0, 300, 900, 14400}

CandleShapes ==
    {[open |-> 10, high |-> 12, low |-> 9, close |-> 11, volume |-> 100],
     [open |-> 11, high |-> 15, low |-> 10, close |-> 14, volume |-> 200]}

Candles ==
    {[time |-> t, open |-> c.open, high |-> c.high, low |-> c.low,
      close |-> c.close, volume |-> c.volume] :
        t \in ChartTimes, c \in CandleShapes}

Intervals == {"15M", "30M", "1H", "4H", "1D"}

\* technical_service.py:27-32, in seconds
mapping == ("15M" :> 900) @@ ("30M" :> 1800) @@ ("1H" :> 3600) @@
           ("4H" :> 14400)

BucketOf(time, seconds) == (time \div seconds) * seconds

\* the resampler orders the rows by time, keeping the order of equal times
RECURSIVE SortByTime(_)
SortByTime(rows) ==
    IF Len(rows) <= 1
    THEN rows
    ELSE LET init == SortByTime(SubSeq(rows, 1, Len(rows) - 1))
             x == rows[Len(rows)]
             before == SelectSeq(init, LAMBDA r : r.time <= x.time)
             after == SelectSeq(init, LAMBDA r : r.time > x.time)
         IN before \o <<x>> \o after

RECURSIVE SumVolume(_)
SumVolume(rows) ==
    IF rows = <<>> THEN 0 ELSE Head(rows).volume + SumVolume(Tail(rows))

MaxHigh(rows) ==
    CHOOSE h \in {rows[i].high : i \in DOMAIN rows} :
        \A i \in DOMAIN rows : rows[i].high <= h

MinLow(rows) ==
    CHOOSE l \in {rows[i].low : i \in DOMAIN rows} :
        \A i \in DOMAIN rows : l <= rows[i].low

\* 'close': 'last'
LastCloseAsFirst(rows) == rows[1].close

LastClose(rows) == rows[Len(rows)].close

\* the aggregate of one bin (technical_service.py:46-52)
Aggregate(start, rows) ==
    [time |-> start, open |-> rows[1].open, high |-> MaxHigh(rows),
     low |-> MinLow(rows), close |-> LastClose(rows),
     volume |-> SumVolume(rows)]

\* every row has the column the index is built from
\* (technical_service.py:22)
HasTimes(data) == \A i \in DOMAIN data : "time" \in DOMAIN data[i]

resample_chart_data(data, interval) ==
    IF Len(data) < 2
    THEN <<>>
    ELSE IF ~HasTimes(data)
    THEN \* df['time'] raises; except: return chart_data
         data
    ELSE IF interval \notin DOMAIN mapping
    THEN data
    ELSE LET seconds == mapping[interval]
             rows == SortByTime(data)
             first == BucketOf(rows[1].time, seconds)
             last == BucketOf(rows[Len(rows)].time, seconds)
             bins == [k \in 1..((last - first) \div seconds + 1) |->
                         first + (k - 1) * seconds]
             InBin(start) ==
                 SelectSeq(rows, LAMBDA r : BucketOf(r.time, seconds) = start)
             kept == SelectSeq(bins, LAMBDA start : InBin(start) # <<>>)
         IN [k \in DOMAIN kept |-> Aggregate(kept[k], InBin(kept[k]))]

\* the rows of the frame after df['datetime'] = ... and set_index
\* (technical_service.py:22-23)
Indexed(data) ==
    [i \in DOMAIN data |->
        [f \in DOMAIN data[i] \cup {"datetime"} |->
            IF f = "datetime" THEN data[i].time ELSE data[i][f]]]

\* the caller's list after the call: pd.DataFrame(chart_data) copies the
\* values into a new frame (technical_service.py:19), and every step in
\* place after it is on that frame or on the resampled one (lines 22-23, 54,
\* 57, 60)
list_after_shared_frame(data, interval) ==
    IF Len(data) < 2 \/ ~HasTimes(data) THEN data ELSE Indexed(data)

list_after(data, interval) == data

Resample ==
    /\ ~resampled.done
    /\ resampled' = [done |-> TRUE,
                     out |-> resample_chart_data(chart_data, target_interval)]
    /\ chart_after' = [done |-> TRUE,
                       out |-> list_after(chart_data, target_interval)]
    /\ UNCHANGED <<now, connVars, loopVars, electionVars, regVars, laneVars, consumerVars, sideVars,
                   chart_data, target_interval, symbol_in, formatted,
                   formatted_again, eodhd_of, class_of>>

SeriesUpTo(n) == UNION {[1..k -> Candles] : k \in 0..n}

\* series whose candles lack the time field, which make the call raise
TimelessUpTo(n) == UNION {[1..k -> CandleShapes] : k \in 1..n}

InitResample ==
    /\ now = 0
    /\ ProducersIdle
    /\ RegistryEmpty
    /\ LanesIdle
    /\ ConsumerIdle
    /\ chart_data \in SeriesUpTo(MaxCandles) \cup TimelessUpTo(MaxCandles)
    /\ target_interval \in Intervals
    /\ resampled = NotCalled
    /\ chart_after = NotCalled
    /\ symbol_in = <<>>
    /\ formatted = NotCalled
    /\ formatted_again = NotCalled
    /\ AliasesIdle
    /\ SideIdle

SpecResample == InitResample /\ [][Resample]_vars

TimeOrdered(data) ==
    \A i \in DOMAIN data : \A j \in DOMAIN data :
        i < j => data[i].time <= data[j].time

\* the base candles of a bucket, by their position in the base series
BucketMembers(start) ==
    {i \in DOMAIN chart_data :
        BucketOf(chart_data[i].time, mapping[target_interval]) = start}

RECURSIVE VolumeOf(_)
VolumeOf(members) ==
    IF members = {}
    THEN 0
    ELSE LET i == CHOOSE i \in members : TRUE
         IN chart_data[i].volume + VolumeOf(members \ {i})

ResampleCase ==
    /\ resampled.done
    /\ target_interval \in DOMAIN mapping
    /\ Len(chart_data) >= 2
    /\ HasTimes(chart_data)
    /\ TimeOrdered(chart_data)

\* C7: for a time-ordered base series and a supported interval, every
\* output candle has the open of the earliest base candle of its bucket,
\* the close of the latest, the maximum of the highs, the minimum of the
\* lows and the sum of the volumes, a base candle's bucket being
\* floor(time / bucketSeconds) * bucketSeconds.
C7_ResampleCorrect ==
    ResampleCase =>
        \A k \in DOMAIN resampled.out :
            LET c == resampled.out[k]
                G == BucketMembers(c.time)
            IN /\ G # {}
               /\ \E lo \in G : \E hi \in G :
                    /\ \A i \in G : lo <= i /\ i <= hi
                    /\ c.open = chart_data[lo].open
                    /\ c.close = chart_data[hi].close
               /\ \E i \in G : c.high = chart_data[i].high
               /\ \A i \in G : chart_data[i].high <= c.high
               /\ \E i \in G : c.low = chart_data[i].low
               /\ \A i \in G : c.low <= chart_data[i].low
               /\ c.volume = VolumeOf(G)

\* C7 witness: two output candles, the first aggregating two base candles
\* of different shapes, with an empty bin between the two buckets.
C7_Witness ==
    /\ ResampleCase
    /\ Len(resampled.out) = 2
    /\ resampled.out[2].time > resampled.out[1].time + mapping[target_interval]
    /\ LET G == BucketMembers(resampled.out[1].time)
       IN \E i \in G : \E j \in G :
            i < j /\ chart_data[i].close # chart_data[j].close

\* the starts of the buckets that hold a base candle
NonEmptyBuckets ==
    {BucketOf(chart_data[i].time, mapping[target_interval]) :
        i \in DOMAIN chart_data}

\* the output has one candle per bucket that holds a base candle, none for
\* any other bucket, in ascending order of time
CoversBuckets(out) ==
    /\ {out[k].time : k \in DOMAIN out} = NonEmptyBuckets
    /\ \A j \in DOMAIN out : \A k \in DOMAIN out :
          j < k => out[j].time < out[k].time

\* C19 (as claimed): for every non-empty base series, a single candle
\* included, and every supported interval, the output has exactly one candle
\* for each bucket that holds a base candle and none for an empty bucket,
\* its time the bucket's start, in ascending order of time.
C19_BucketCoverage ==
    (resampled.done /\ target_interval \in DOMAIN mapping
        /\ Len(chart_data) >= 1 /\ HasTimes(chart_data)) =>
            CoversBuckets(resampled.out)

C21_ErrorPathReached ==
    /\ resampled.done
    /\ Len(chart_data) >= 2
    /\ ~HasTimes(chart_data)
    /\ resampled.out = chart_data

(***************************************************************************)
(* The symbol normaliser: format_symbol_for_eodhd                          *)
(* (eodhd_service.py:17-47).  A string is a sequence of one-character      *)
(* strings.                                                                *)
(***************************************************************************)
MaxSymbolLen == 4

SymbolChars == {"A", "N", "S", "B", "O", "n", "s", ".", " "}

LowerCase == <<"a", "b", "c", "d", "e", "f", "g", "h", "i", "j", "k", "l", "m",
               "n", "o", "p", "q", "r", "s", "t", "u", "v", "w", "x", "y", "z">>

UpperCase == <<"A", "B", "C", "D", "E", "F", "G", "H", "I", "J", "K", "L", "M",
               "N", "O", "P", "Q", "R", "S", "T", "U", "V", "W", "X", "Y", "Z">>

Whitespace == {" "}

\* str.upper
upper(str) ==
    [i \in DOMAIN str |->
        IF \E k \in DOMAIN LowerCase : LowerCase[k] = str[i]
        THEN UpperCase[CHOOSE k \in DOMAIN LowerCase : LowerCase[k] = str[i]]
        ELSE str[i]]

\* str.strip
RECURSIVE strip(_)
strip(str) ==
    IF str = <<>> THEN str
    ELSE IF Head(str) \in Whitespace THEN strip(Tail(str))
    ELSE IF str[Len(str)] \in Whitespace
    THEN strip(SubSeq(str, 1, Len(str) - 1))
    ELSE str

startswith(str, prefix) ==
    /\ Len(prefix) <= Len(str)
    /\ SubSeq(str, 1, Len(prefix)) = prefix

endswith(str, suffix) ==
    /\ Len(suffix) <= Len(str)
    /\ SubSeq(str, Len(str) - Len(suffix) + 1, Len(str)) = suffix

\* str.replace(old, new): every occurrence, left to right, not overlapping
RECURSIVE replace(_, _, _)
replace_first_only(str, old, new) ==
    IF \E i \in 1..Len(str) : startswith(SubSeq(str, i, Len(str)), old)
    THEN LET i == CHOOSE i \in 1..Len(str) :
                    /\ startswith(SubSeq(str, i, Len(str)), old)
                    /\ \A j \in 1..(i - 1) :
                          ~startswith(SubSeq(str, j, Len(str)), old)
         IN SubSeq(str, 1, i - 1) \o new
                \o SubSeq(str, i + Len(old), Len(str))
    ELSE str

replace(str, old, new) ==
    IF str = <<>> THEN str
    ELSE IF startswith(str, old)
    THEN new \o replace(SubSeq(str, Len(old) + 1, Len(str)), old, new)
    ELSE <<Head(str)>> \o replace(Tail(str), old, new)

DOT_NS == <<".", "N", "S">>
DOT_NSE == <<".", "N", "S", "E">>
DOT_BO == <<".", "B", "O">>
DOT_BSE == <<".", "B", "S", "E">>
DOT_US == <<".", "U", "S">>

\* eodhd_service.py:31-42: the exact matches and what they map to
ALIASES ==
    <<<<<<"^", "N", "S", "E", "I">>,
        <<"N", "S", "E", "I", ".", "I", "N", "D", "X">>>>,
      <<<<"^", "N", "S", "E", "B", "A", "N", "K">>,
        <<"N", "S", "E", "B", "A", "N", "K", ".", "I", "N", "D", "X">>>>,
      <<<<"^", "B", "S", "E", "S", "N">>,
        <<"B", "S", "E", "S", "N", ".", "I", "N", "D", "X">>>>,
      <<<<"^", "G", "S", "P", "C">>,
        <<"G", "S", "P", "C", ".", "I", "N", "D", "X">>>>,
      <<<<"^", "D", "J", "I">>,
        <<"D", "J", "I", ".", "I", "N", "D", "X">>>>,
      <<<<"^", "I", "X", "I", "C">>,
        <<"I", "X", "I", "C", ".", "I", "N", "D", "X">>>>,
      <<<<"^", "N", "2", "2", "5">>,
        <<"N", "2", "2", "5", ".", "I", "N", "D", "X">>>>,
      <<<<"^", "G", "D", "A", "X", "I">>,
        <<"G", "D", "A", "X", "I", ".", "I", "N", "D", "X">>>>,
      <<<<"B", "T", "C", "-", "U", "S", "D">>,
        <<"B", "T", "C", "-", "U", "S", "D", ".", "C", "C">>>>,
      <<<<"E", "T", "H", "-", "U", "S", "D">>,
        <<"E", "T", "H", "-", "U", "S", "D", ".", "C", "C">>>>>>

format_symbol_for_eodhd(symbol) ==
    IF symbol = <<>>
    THEN <<>>
    ELSE LET sym == strip(upper(symbol))
         IN IF endswith(sym, DOT_NS) THEN replace(sym, DOT_NS, DOT_NSE)
            ELSE IF endswith(sym, DOT_BO) THEN replace(sym, DOT_BO, DOT_BSE)
            ELSE IF \E k \in DOMAIN ALIASES : ALIASES[k][1] = sym
            THEN ALIASES[CHOOSE k \in DOMAIN ALIASES : ALIASES[k][1] = sym][2]
            ELSE IF \A i \in DOMAIN sym : sym[i] # "."
            THEN sym \o DOT_US
            ELSE sym

\* the first call
Format ==
    /\ ~formatted.done
    /\ formatted' = [done |-> TRUE, out |-> format_symbol_for_eodhd(symbol_in)]
    /\ UNCHANGED <<now, connVars, loopVars, electionVars, regVars, laneVars, consumerVars, sideVars,
                   chart_data, target_interval, resampled, chart_after,
                   symbol_in,
                   formatted_again, eodhd_of, class_of>>

\* the call on the first call's result
FormatAgain ==
    /\ formatted.done
    /\ ~formatted_again.done
    /\ formatted_again' =
           [done |-> TRUE, out |-> format_symbol_for_eodhd(formatted.out)]
    /\ UNCHANGED <<now, connVars, loopVars, electionVars, regVars, laneVars, consumerVars, sideVars,
                   chart_data, target_interval, resampled, chart_after,
                   symbol_in,
                   formatted, eodhd_of, class_of>>

\* inputs for the rules that need more than MaxSymbolLen characters
SymbolFixtures ==
    {<<"R", "E", "L", "I", "A", "N", "C", "E", ".", "N", "S">>,
     <<"r", "e", "l", "i", "a", "n", "c", "e", ".", "n", "s">>,
     <<"T", "C", "S", ".", "B", "O">>,
     <<" ", "a", "a", "p", "l", " ">>,
     <<"B", "R", "K", ".", "B">>,
     <<"b", "t", "c", "-", "u", "s", "d">>,
     <<"E", "t", "h", "-", "U", "s", "d", " ">>,
     <<"^", "n", "s", "e", "i">>,
     <<"a", ".", "n", "s", ".", "N", "S">>,
     <<"X", ".", "B", "O", ".", "N", "S">>} \cup {ALIASES[k][1] : k \in DOMAIN ALIASES}

StringsUpTo(n) == UNION {[1..k -> SymbolChars] : k \in 0..n}

InitNormalize ==
    /\ now = 0
    /\ ProducersIdle
    /\ RegistryEmpty
    /\ LanesIdle
    /\ ConsumerIdle
    /\ chart_data = <<>>
    /\ target_interval = "-"
    /\ resampled = NotCalled
    /\ chart_after = NotCalled
    /\ symbol_in \in StringsUpTo(MaxSymbolLen) \cup SymbolFixtures
    /\ formatted = NotCalled
    /\ formatted_again = NotCalled
    /\ AliasesIdle
    /\ SideIdle

NextNormalize ==
    \/ Format
    \/ FormatAgain

SpecNormalize == InitNormalize /\ [][NextNormalize]_vars

\* C8: normalising an already normalised symbol changes nothing:
\* format_symbol_for_eodhd(format_symbol_for_eodhd(x)) =
\* format_symbol_for_eodhd(x), for the regional suffixes .NS and .BO, the
\* index aliases, the crypto pairs and the no-suffix default.
C8_NormalizeIdempotent ==
    formatted_again.done => formatted_again.out = formatted.out

\* C8 witness: a lower-case symbol in which .NS occurs twice was rewritten
\* by the regional-suffix rule and normalised again.
C8_Witness ==
    /\ formatted_again.done
    /\ symbol_in # upper(symbol_in)
    /\ endswith(strip(upper(symbol_in)), DOT_NS)
    /\ Len(formatted.out) = Len(strip(upper(symbol_in))) + 2

(***************************************************************************)
(* The spellings of a crypto coin under the two normalisers:               *)
(* format_symbol_for_eodhd and identify_asset_class                        *)
(* (routers/stocks.py:82-105), which returns a source and a ticker.        *)
(***************************************************************************)
\* routers/stocks.py:90-96: the commodity aliases and their tickers
COMMODITIES ==
    <<<<{<<"C", "L", "=", "F">>, <<"C", "L", "%", "3", "D", "F">>,
         <<"U", "S", "O", "I", "L">>, <<"W", "T", "I">>,
         <<"C", "R", "U", "D", "E">>,
         <<"C", "R", "U", "D", "E", "O", "I", "L">>, <<"O", "I", "L">>,
         <<"C", "L", "U", "S", "D">>},
        <<"C", "L", "U", "S", "D">>>>,
      <<{<<"B", "Z", "=", "F">>, <<"B", "R", "E", "N", "T">>,
         <<"U", "K", "O", "I", "L">>,
         <<"B", "R", "E", "N", "T", "O", "I", "L">>},
        <<"U", "K", "O", "I", "L">>>>,
      <<{<<"G", "C", "=", "F">>, <<"G", "O", "L", "D">>, <<"X", "A", "U">>,
         <<"X", "A", "U", "U", "S", "D">>},
        <<"X", "A", "U", "U", "S", "D">>>>,
      <<{<<"S", "I", "=", "F">>, <<"S", "I", "L", "V", "E", "R">>,
         <<"X", "A", "G">>, <<"X", "A", "G", "U", "S", "D">>},
        <<"X", "A", "G", "U", "S", "D">>>>,
      <<{<<"N", "G", "=", "F">>, <<"G", "A", "S">>,
         <<"N", "A", "T", "G", "A", "S">>, <<"N", "G", "U", "S", "D">>,
         <<"U", "N", "G">>, <<"U", "N", "G", ".", "U", "S">>},
        <<"N", "G", "U", "S", "D">>>>,
      <<{<<"H", "G", "=", "F">>, <<"C", "O", "P", "P", "E", "R">>,
         <<"H", "G", "U", "S", "D">>},
        <<"H", "G", "U", "S", "D">>>>,
      <<{<<"P", "L", "=", "F">>, <<"P", "L", "A", "T", "I", "N", "U", "M">>,
         <<"P", "L", "U", "S", "D">>},
        <<"P", "L", "U", "S", "D">>>>>>

\* routers/stocks.py:99
COINS ==
    {<<"B", "T", "C">>, <<"E", "T", "H">>, <<"S", "O", "L">>,
     <<"X", "R", "P">>, <<"D", "O", "G", "E">>, <<"A", "D", "A">>,
     <<"M", "A", "T", "I", "C">>, <<"D", "O", "T">>, <<"L", "T", "C">>}

DOT_CC == <<".", "C", "C">>
USD == <<"U", "S", "D">>
DASH_USD == <<"-", "U", "S", "D">>
DASH_USD_DOT_CC == <<"-", "U", "S", "D", ".", "C", "C">>

\* sub in str
contains(str, sub) ==
    \E i \in 1..(Len(str) + 1) : startswith(SubSeq(str, i, Len(str)), sub)

\* urllib.parse.unquote: of the escapes, %3D is the one the aliases use
unquote(str) == replace(str, <<"%", "3", "D">>, <<"=">>)

identify_asset_class(symbol) ==
    LET s == strip(upper(unquote(symbol)))
    IN IF \E k \in DOMAIN COMMODITIES : s \in COMMODITIES[k][1]
       THEN <<"FMP",
              COMMODITIES[CHOOSE k \in DOMAIN COMMODITIES :
                              s \in COMMODITIES[k][1]][2]>>
       ELSE IF contains(s, DOT_CC) \/ s \in COINS
       THEN LET clean == replace(replace(s, DASH_USD_DOT_CC, USD), DOT_CC, <<>>)
            IN <<"FMP", IF endswith(clean, USD) THEN clean ELSE clean \o USD>>
       ELSE <<"EODHD", s>>

\* a coin's short code as typed, and its other two spellings
Spelling(code, v) ==
    IF v = "short" THEN code
    ELSE IF v = "usd" THEN code \o DASH_USD
    ELSE code \o DASH_USD_DOT_CC

lower(str) ==
    [i \in DOMAIN str |->
        IF \E k \in DOMAIN UpperCase : UpperCase[k] = str[i]
        THEN LowerCase[CHOOSE k \in DOMAIN UpperCase : UpperCase[k] = str[i]]
        ELSE str[i]]

FormatSpelling(v) ==
    /\ ~eodhd_of[v].done
    /\ eodhd_of' = [eodhd_of EXCEPT ![v] =
           [done |-> TRUE,
            out |-> format_symbol_for_eodhd(Spelling(symbol_in, v))]]
    /\ UNCHANGED <<now, connVars, loopVars, electionVars, regVars, laneVars,
                   consumerVars, sideVars, chart_data, target_interval, resampled,
                   chart_after,
                   symbol_in, formatted, formatted_again, class_of>>

IdentifySpelling(v) ==
    /\ ~class_of[v].done
    /\ class_of' = [class_of EXCEPT ![v] =
           [done |-> TRUE,
            out |-> identify_asset_class(Spelling(symbol_in, v))]]
    /\ UNCHANGED <<now, connVars, loopVars, electionVars, regVars, laneVars,
                   consumerVars, sideVars, chart_data, target_interval, resampled,
                   chart_after,
                   symbol_in, formatted, formatted_again, eodhd_of>>

InitAliases ==
    /\ now = 0
    /\ ProducersIdle
    /\ RegistryEmpty
    /\ LanesIdle
    /\ ConsumerIdle
    /\ chart_data = <<>>
    /\ target_interval = "-"
    /\ resampled = NotCalled
    /\ chart_after = NotCalled
    /\ symbol_in \in COINS \cup {lower(c) : c \in COINS}
    /\ formatted = NotCalled
    /\ formatted_again = NotCalled
    /\ AliasesIdle
    /\ SideIdle

NextAliases ==
    \/ \E v \in Spellings : FormatSpelling(v)
    \/ \E v \in Spellings : IdentifySpelling(v)

SpecAliases == InitAliases /\ [][NextAliases]_vars

\* the calls on the three spellings returned one and the same value
SameForAll(results) ==
    (\A v \in Spellings : results[v].done) =>
        \A v \in Spellings : results[v].out = results["short"].out

\* C20 (as claimed): for each supported coin the short code ('BTC'), the
\* '-USD' spelling ('BTC-USD') and the suffixed spelling ('BTC-USD.CC')
\* normalise to one and the same canonical symbol, under
\* format_symbol_for_eodhd and under identify_asset_class.
C20_CryptoAliasesAgree ==
    /\ SameForAll(eodhd_of)
    /\ SameForAll(class_of)

(***************************************************************************)
(* One cycle of a polling lane, item by item (stream_hub.py:241-295).      *)
(***************************************************************************)
MaxTargets == 51
MaxBadPos == 2
MaxCycles == 2
FmpBatch == 3

\* the numbers of targets an EODHD cycle is followed for
TargetCounts == {1, MaxTargets}

\* FMP_ASSETS (stream_hub.py:37-40) as character strings
FmpAssetChars ==
    [k \in 1..10 |->
        <<<<"B", "T", "C">>, <<"E", "T", "H">>, <<"S", "O", "L">>,
          <<"X", "R", "P">>, <<"D", "O", "G", "E">>, <<"A", "D", "A">>,
          <<"M", "A", "T", "I", "C">>, <<"D", "O", "T">>, <<"L", "T", "C">>,
          <<"B", "N", "B">>>>[k] \o DASH_USD_DOT_CC]

\* the n-th symbol clients watch: AA.US, AB.US, ...
TargetName(n) ==
    <<UpperCase[((n - 1) \div 26) + 1], UpperCase[((n - 1) % 26) + 1]>>
        \o DOT_US

TargetList(n) == [k \in 1..n |-> TargetName(k)]

\* an item of an upstream batch that lacks 'symbol' and 'code'
Malformed == [price |-> <<"1">>]

\* dict.get(key): None when the key is missing
get(item, key) ==
    IF key \in DOMAIN item
    THEN [none |-> FALSE, val |-> item[key]]
    ELSE [none |-> TRUE, val |-> <<>>]

\* the key each lane reads the symbol from (stream_hub.py:252, 286)
KeyOf(l) == IF l = "FMP" THEN "symbol" ELSE "code"

\* stream_hub.py:253: s.replace("-","").replace(".CC","").replace(".US","")
FmpBare(str) ==
    replace(replace(replace(str, <<"-">>, <<>>), DOT_CC, <<>>), DOT_US, <<>>)

\* next((c for c in cands if sym in bare(c)), None), None as <<>>; the lane
\* calls it with a string, and with None the membership test raises
first_match(l, cands, sym) ==
    LET hits == {k \in DOMAIN cands :
                    contains(IF l = "FMP" THEN FmpBare(cands[k])
                                          ELSE cands[k], sym)}
    IN IF hits = {} THEN <<>>
       ELSE cands[CHOOSE k \in hits : \A j \in hits : k <= j]

\* stream_hub.py:280-281: targets[i:i+50]; the FMP lane asks for its whole
\* list at once (line 249)
ListChunk(p) ==
    IF p.lane = "FMP" THEN p.targets
    ELSE SubSeq(p.targets, p.i + 1,
                IF p.i + EODHD_CHUNK <= Len(p.targets)
                THEN p.i + EODHD_CHUNK ELSE Len(p.targets))

\* the upstream's answer to a fetch: one item per symbol asked for, those
\* at the positions in bad malformed
Answer(p, bad) ==
    LET chunk == ListChunk(p)
        n == IF p.lane = "FMP" THEN FmpBatch ELSE Len(chunk)
    IN [k \in 1..n |->
           IF k \in bad THEN Malformed
           ELSE IF p.lane = "FMP" THEN [symbol |-> FmpBare(chunk[k])]
           ELSE [code |-> chunk[k]]]

\* the end of a batch: the next chunk's fetch, or the end of the try block
\* and the sleep (stream_hub.py:262, 295)
NextChunk(p) ==
    IF p.lane = "EODHD" /\ p.i + EODHD_CHUNK < Len(p.targets)
    THEN [p EXCEPT !.pc = "fetch", !.i = @ + EODHD_CHUNK, !.data = <<>>,
                   !.k = 0]
    ELSE [p EXCEPT !.pc = "sleep", !.data = <<>>, !.k = 0]

\* LANE 2: the gate is passed and the fetch issued (stream_hub.py:244-249)
PollBeginFmp ==
    /\ poll.pc = "idle"
    /\ poll' = [NoPoll EXCEPT !.lane = "FMP", !.pc = "fetch",
                              !.cycles = poll.cycles,
                              !.targets = FmpAssetChars]
    /\ UNCHANGED besidesPoll

\* LANE 3: the gate is passed, the targets are listed and the first chunk's
\* fetch issued (stream_hub.py:267-282)
PollBeginEodhd(n) ==
    /\ poll.pc = "idle"
    /\ poll' = [NoPoll EXCEPT !.lane = "EODHD", !.pc = "fetch",
                              !.cycles = poll.cycles,
                              !.targets = TargetList(n)]
    /\ UNCHANGED besidesPoll

\* the fetch returns a batch (stream_hub.py:249-251, 282-285)
PollFetched(bad) ==
    /\ poll.pc = "fetch"
    /\ poll' = [poll EXCEPT !.pc = "items", !.data = Answer(poll, bad),
                            !.k = 1, !.fetches = @ + 1, !.outcome = "data",
                            !.received = @ \o Answer(poll, bad)]
    /\ UNCHANGED besidesPoll

\* the fetch returns nothing: 'if data:' fails
PollNothing ==
    /\ poll.pc = "fetch"
    /\ poll' = [NextChunk(poll) EXCEPT !.fetches = @ + 1,
                                       !.outcome = "nothing",
                                       !.lost = @ \cup Range(ListChunk(poll))]
    /\ UNCHANGED besidesPoll

\* the except clause the fetch and the loop over the items run under
\* (stream_hub.py:261, 294): pass, on to the sleep
ItemRaisesEndsLoop(p) == [p EXCEPT !.pc = "ended", !.data = <<>>, !.k = 0]

ItemRaises(p) == [p EXCEPT !.pc = "sleep", !.data = <<>>, !.k = 0]

\* the fetch raises (stream_hub.py:249, 282)
PollRaises ==
    /\ poll.pc = "fetch"
    /\ poll' = [ItemRaises(poll) EXCEPT !.fetches = @ + 1,
                                        !.outcome = "raised",
                                        !.lost = @ \cup Range(ListChunk(poll))]
    /\ UNCHANGED besidesPoll

\* asyncio.sleep(1) / asyncio.sleep(1.5) returns and the while loop comes
\* round (stream_hub.py:262, 243 and 295, 266)
PollWake ==
    /\ poll.pc = "sleep"
    /\ poll.cycles < MaxCycles
    /\ poll' = [NoPoll EXCEPT !.cycles = poll.cycles + 1]
    /\ UNCHANGED besidesPoll

\* one pass of 'for item in data' (stream_hub.py:251-260, 285-293)
PollItem ==
    /\ poll.pc = "items"
    /\ LET sym == get(poll.data[poll.k], KeyOf(poll.lane))
           hit == first_match(poll.lane, ListChunk(poll), sym.val)
           sent == IF hit = <<>> THEN poll
                   ELSE [poll EXCEPT !.published = Append(@, hit)]
       IN poll' = IF sym.none THEN ItemRaises(poll)
                  ELSE IF poll.k < Len(poll.data)
                  THEN [sent EXCEPT !.k = @ + 1]
                  ELSE NextChunk(sent)
    /\ UNCHANGED besidesPoll

NextPoll ==
    \/ PollBeginFmp
    \/ \E n \in TargetCounts : PollBeginEodhd(n)
    \/ \E bad \in SUBSET (1..MaxBadPos) : PollFetched(bad)
    \/ PollNothing
    \/ PollRaises
    \/ PollItem
    \/ PollWake

SpecPoll == InitLanes /\ [][NextPoll]_vars

\* the symbol a well-formed item is for
ItemFor(l, item) ==
    IF l = "FMP"
    THEN first_match(l, FmpAssetChars, item.symbol)
    ELSE item.code

\* the number of chunks a cycle's targets make
ChunksOf(p) ==
    IF p.lane = "FMP" THEN 1
    ELSE (Len(p.targets) + EODHD_CHUNK - 1) \div EODHD_CHUNK

\* C23 (as claimed): a malformed item is skipped alone: when a cycle none
\* of whose fetches failed is over, every chunk of the cycle has been fetched and every well-formed
\* item of every batch received has been published.
C23_MalformedSkippedAlone ==
    poll.pc = "sleep" /\ poll.lost = {} =>
        /\ poll.fetches = ChunksOf(poll)
        /\ \A k \in DOMAIN poll.received :
              ~get(poll.received[k], KeyOf(poll.lane)).none =>
                  \E j \in DOMAIN poll.published :
                      poll.published[j] = ItemFor(poll.lane, poll.received[k])

\* a cycle without a malformed item publishes every item of every chunk
C23_CleanCycle ==
    /\ poll.pc = "sleep"
    /\ poll.lane = "EODHD"
    /\ poll.fetches = 2
    /\ Len(poll.published) = MaxTargets

\* C24: a failed fetch is absorbed: no chunk is asked for twice in a cycle,
\* nothing a failed fetch was for is published, a fetch that raised leaves
\* the lane at its sleep, and from the sleep the loop comes round again
\* (followed for MaxCycles cycles).
C24_FetchFailureAbsorbed ==
    /\ poll.pc = "fetch" => poll.fetches = poll.i \div EODHD_CHUNK
    /\ poll.fetches <= ChunksOf(poll)
    /\ \A j \in DOMAIN poll.published : poll.published[j] \notin poll.lost
    /\ poll.outcome = "raised" => poll.pc = "sleep"
    /\ poll.pc \in {"idle", "fetch", "items", "sleep"}
    /\ poll.pc = "sleep" /\ poll.cycles < MaxCycles => ENABLED PollWake

\* the second chunk's fetch raised after the first chunk was published
C24_Witness ==
    /\ poll.lane = "EODHD"
    /\ poll.outcome = "raised"
    /\ poll.pc = "sleep"
    /\ poll.fetches = 2
    /\ Len(poll.published) = EODHD_CHUNK
    /\ poll.lost = {TargetName(MaxTargets)}
    /\ poll.cycles = 1

(***************************************************************************)
(* identify_asset_class applied to its own result                          *)
(* (routers/stocks.py:82-105).                                             *)
(***************************************************************************)
\* plain tickers, as typed
PlainTickers ==
    {<<"A", "A", "P", "L">>, <<"a", "a", "p", "l">>,
     <<"A", "A", "P", "L", ".", "U", "S">>, <<" ", "T", "C", "S", " ">>,
     <<"B", "T", "C", "U", "S", "D">>, <<>>}

\* the inputs the calls are followed for: every commodity alias, every
\* crypto short code in either case, its other spellings, plain tickers
RoutingInputs ==
    UNION {COMMODITIES[k][1] : k \in DOMAIN COMMODITIES}
        \cup COINS \cup {lower(c) : c \in COINS}
        \cup {Spelling(c, v) : c \in COINS, v \in Spellings}
        \cup PlainTickers

\* the call on an input
Identify(x) ==
    /\ ~routing.first.done
    /\ routing' = [routing EXCEPT
                      !.x = x,
                      !.first = [done |-> TRUE,
                                 out |-> identify_asset_class(x)]]
    /\ UNCHANGED besidesRouting

\* the call on the clean ticker the first call returned
IdentifyAgain ==
    /\ routing.first.done
    /\ ~routing.again.done
    /\ routing' = [routing EXCEPT
                      !.again = [done |-> TRUE,
                                 out |-> identify_asset_class(
                                             routing.first.out[2])]]
    /\ UNCHANGED besidesRouting

NextRouting ==
    \/ \E x \in RoutingInputs : Identify(x)
    \/ IdentifyAgain

SpecRouting == InitLanes /\ [][NextRouting]_vars

\* C25 (as claimed): identify_asset_class applied to the clean ticker it
\* returned yields the same (source, ticker) pair as for the input.
C25_RoutingIdempotent ==
    routing.again.done => routing.again.out = routing.first.out

\* the commodity aliases are routed the same way a second time
C25_CommodityStable ==
    /\ routing.again.done
    /\ routing.x = <<"G", "O", "L", "D">>
    /\ routing.again.out = routing.first.out
    /\ routing.first.out = <<"FMP", <<"X", "A", "U", "U", "S", "D">>>>

(***************************************************************************)
(* The legacy stream router's ConnectionManager (routers/stream.py:10-39), *)
(* for the connections of one symbol: active_connections is that symbol's  *)
(* list, empty when the symbol is not a key.                               *)
(***************************************************************************)
\* list.remove(x): the first occurrence
remove(list, x) ==
    IF \E i \in DOMAIN list : list[i] = x
    THEN LET i == CHOOSE i \in DOMAIN list :
                     list[i] = x /\ \A j \in 1..(i - 1) : list[j] # x
         IN SubSeq(list, 1, i - 1) \o SubSeq(list, i + 1, Len(list))
    ELSE list

\* ConnectionManager.disconnect (routers/stream.py:22-27) while a broadcast
\* may be iterating the list: once the list is emptied the key is deleted
\* and the iterated list object stays empty
disconnect(l, w) ==
    LET rest == remove(l.active_connections, w)
    IN [l EXCEPT !.active_connections = rest,
                 !.detached = @ \/ (l.pc = "send" /\ rest = <<>>)]

\* ConnectionManager.connect (routers/stream.py:16-20)
LegacyConnect(w) ==
    /\ w \notin legacy.once
    /\ legacy' = [legacy EXCEPT !.active_connections = Append(@, w),
                                !.once = @ \cup {w}]
    /\ UNCHANGED besidesLegacy

\* websocket_endpoint on WebSocketDisconnect (routers/stream.py:98-99)
LegacyDisconnect(w) ==
    /\ w \in SocketsOf(legacy.active_connections)
    /\ legacy' = [disconnect(legacy, w) EXCEPT
                     !.gone = IF legacy.pc = "send" THEN @ \cup {w} ELSE @]
    /\ UNCHANGED besidesLegacy

\* ConnectionManager.broadcast up to the first send (routers/stream.py:29-36)
LegacyBroadcast ==
    /\ legacy.pc = "idle"
    /\ legacy.active_connections # <<>>
    /\ legacy' = [legacy EXCEPT
                     !.pc = "send", !.idx = 1,
                     !.cur = legacy.active_connections[1],
                     !.detached = FALSE,
                     !.start = SocketsOf(legacy.active_connections),
                     !.sent = {}, !.failed = {}, !.gone = {},
                     !.done = FALSE]
    /\ UNCHANGED besidesLegacy

\* the for loop's step after the send to cur (routers/stream.py:34): the
\* iterator's index moves on over the list as it is now
next_connection(l) ==
    IF ~l.detached /\ l.idx < Len(l.active_connections)
    THEN [l EXCEPT !.idx = @ + 1, !.cur = l.active_connections[l.idx + 1]]
    ELSE [l EXCEPT !.pc = "idle", !.idx = 0, !.cur = "-", !.done = TRUE]

\* await connection.send_text returned or raised (routers/stream.py:35-39)
LegacySend(ok) ==
    /\ legacy.pc = "send"
    /\ ok => legacy.cur \notin legacy.gone
    /\ legacy' =
          IF ok
          THEN next_connection([legacy EXCEPT !.sent = @ \cup {legacy.cur}])
          ELSE next_connection(
                   [disconnect(legacy, legacy.cur) EXCEPT
                       !.failed = @ \cup {legacy.cur}])
    /\ UNCHANGED besidesLegacy

NextLegacy ==
    \/ \E w \in Sockets : LegacyConnect(w)
    \/ \E w \in Sockets : LegacyDisconnect(w)
    \/ LegacyBroadcast
    \/ \E ok \in BOOLEAN : LegacySend(ok)

SpecLegacy == InitLanes /\ [][NextLegacy]_vars

\* C26 (as claimed): when a broadcast during which no client disconnected
\* has returned, every connection that was registered when it started and
\* whose send did not fail was sent the message, whatever sends failed.
C26_LiveNotSkipped ==
    (legacy.done /\ legacy.gone = {}) =>
        (legacy.start \ legacy.failed) \subseteq legacy.sent

\* a broadcast without a failed send reaches every connection
C26_AllLive ==
    /\ legacy.done
    /\ legacy.gone = {}
    /\ legacy.failed = {}
    /\ legacy.start = Sockets
    /\ legacy.sent = Sockets

(***************************************************************************)
(* get_stock_chart in local mode (routers/stocks.py:365-413): get_cache    *)
(* and set_cache hand over the cached list itself                          *)
(* (redis_service.py:161, 169).                                            *)
(***************************************************************************)
MaxChartCalls == 2

\* the ranges asked for, the histories the upstream returns and the live
\* prices (0: no price)
ChartRanges == {"5M", "15M", "1D"}
ChartHistories ==
    {<<>>} \cup {h \in [1..1 -> Candles] : h[1].time = 0}
        \cup {h \in [1..2 -> Candles] : h[1].time = 0 /\ h[2].time = 300}
LivePrices == {0, 8, 20}

\* routers/stocks.py:369-370
is_intraday_derived(range) == range \in {"5M", "15M", "30M", "1H", "4H"}
lookup_range(range) == IF is_intraday_derived(range) THEN "5M" ELSE range

\* routers/stocks.py:404-408: the last candle takes the live price
stitched(final_data, current_price) ==
    IF current_price = 0 \/ final_data = <<>>
    THEN final_data
    ELSE [final_data EXCEPT ![Len(final_data)] =
             [@ EXCEPT !.close = current_price,
                       !.high = IF current_price > @ THEN current_price
                                                     ELSE @,
                       !.low = IF current_price < @ THEN current_price
                                                    ELSE @]]

\* resample_chart_data hands back the list it was passed
\* (technical_service.py:34-38, 70-72)
returns_input(data, interval) ==
    Len(data) >= 2 /\ (~HasTimes(data) \/ interval \notin DOMAIN mapping)

\* routers/stocks.py:390-394: final_data is the cached list itself unless a
\* non-empty resampled series replaces it
final_is_chart_data(base, range) ==
    \/ ~(is_intraday_derived(range) /\ range # "5M")
    \/ resample_chart_data(base, range) = <<>>
    \/ returns_input(base, range)

\* one request, from the cache lookup to the response
get_stock_chart(range, history, current_price) ==
    LET key == lookup_range(range)
        cached == chart.cache[key]
        base == IF cached # <<>> THEN cached ELSE history
        stored == cached = <<>> /\ history # <<>>
        final_data == IF final_is_chart_data(base, range)
                      THEN base
                      ELSE resample_chart_data(base, range)
    IN /\ chart.calls < MaxChartCalls
       /\ chart' =
            [cache |-> [chart.cache EXCEPT ![key] =
                           IF final_is_chart_data(base, range)
                           THEN stitched(base, current_price)
                           ELSE base],
             passed |-> IF stored
                        THEN [chart.passed EXCEPT ![key] = history]
                        ELSE chart.passed,
             range |-> range,
             response |-> stitched(final_data, current_price),
             calls |-> chart.calls + 1]
       /\ UNCHANGED besidesChart

NextChart ==
    \E range \in ChartRanges, history \in ChartHistories,
       current_price \in LivePrices :
        get_stock_chart(range, history, current_price)

SpecChart == InitLanes /\ [][NextChart]_vars

\* C28 (as claimed): in local mode the base series under every chart_base
\* cache key equals the series that was passed to set_cache, after any
\* sequence of get_stock_chart calls.
C28_CacheNotAlteredByReads ==
    \A key \in LookupRanges : chart.cache[key] = chart.passed[key]

\* a resampled response is stitched and the cached base series is not
C28_ResampledResponse ==
    /\ chart.calls = MaxChartCalls
    /\ chart.range = "15M"
    /\ chart.cache["5M"] = chart.passed["5M"]
    /\ Len(chart.cache["5M"]) = 2
    /\ Len(chart.response) = 1
    /\ chart.response[1].close = 20

====
